---- MODULE Spec2Model ----
(***************************************************************************)
(* End-to-end encrypted chat client: CryptoService (socket.service.ts),    *)
(* AuthContext.tsx, GroupChat.tsx (GroupChat and Chat), CreateGroup.tsx.   *)
(*                                                                         *)
(* Conventions                                                             *)
(*   - a byte buffer (ArrayBuffer, Uint8Array) is a sequence over 0..255;  *)
(*   - a JavaScript string is the sequence of its UTF-16 code units;      *)
(*   - a call that may throw returns a result record:                      *)
(*       [ok |-> TRUE, val |-> v]   or   [ok |-> FALSE, err |-> name]      *)
(*     where name is the thrown error's name (DOMException) or, for a      *)
(*     `new Error(msg)`, a tag of its message;                             *)
(*   - crypto.getRandomValues and crypto.subtle.generateKey draw from an   *)
(*     explicit argument, chosen nondeterministically by the caller.       *)
(*                                                                         *)
(* The Web Crypto primitives are the platform's, not the repository's.     *)
(* They are modelled by small deterministic stand-ins with the algebra    *)
(* the real ones have: ECDH over a prime-order group (exponentiation in    *)
(* the order-11 subgroup of the units mod 23), AES-GCM as a keystream XOR  *)
(* followed by a tag over key, IV and ciphertext, HKDF and PBKDF2 as keyed *)
(* expansions. Within the modelled domain distinct keys give distinct     *)
(* tags, as the real primitives do up to negligible probability.          *)
(***************************************************************************)
EXTENDS Integers, Sequences, FiniteSets, TLC

VARIABLES
  scenario,      \* CryptoService harness: the inputs drawn for one scenario
  sealed,        \* CryptoService harness: what the encrypting side returned
  opened,        \* CryptoService harness: what the decrypting side returned
  user,          \* AuthProvider state: the signed-in user, or None
  privateKey,    \* AuthProvider state
  publicKey,     \* AuthProvider state
  publicKeyRaw,  \* AuthProvider state: None or [bytes |-> the raw public key]
  localStorage,  \* the browser's localStorage: per key None or [text |-> string]
  socket,        \* Chat state: None or [connected |-> TRUE]
  socketUser,    \* SocketService: None or [id |-> the user id the socket registered]
  selectedChat,  \* Chat state: None or [userId |-> id]
  messages,      \* Chat state: the list shown
  directory,     \* server: per e-mail the body of the accepted registration, or None
  emitted,       \* server: the "message:send" events the client has emitted
  rng,           \* groups: how many key pairs and nonces the random source gave
  creating,      \* groups: the handleCreateGroup in progress, or None
  groups,        \* server: the groups, each with the envelopes of its members
  groupMessages, \* server: the "group:message:send" events
  directMessages, \* server: the "message:send" events of the three users
  storedGroupKeys, \* per user, localStorage "groupKeys": group id to base64
  chatGroupKey,  \* per user, the groupKey of GroupChat for the groups opened
  generated,     \* history: the keys generateGroupKey returned, in order
  wrapCalls,     \* history: the group keys handed to encryptGroupKeyForMember
  lastCreate,    \* history: the last handleCreateGroup and how far it got
  posted,        \* history: the bodies of the POST /chat/group requests
  serviceSocket, \* SocketService.socket: 0 (null) or the index of a socket
  sockets,       \* the sockets io() returned, in order of creation
  messageHandlers, \* SocketService.messageHandlers, in insertion order
  handlersMade,  \* history: how many functions were handed to onMessage
  live,          \* history: the handlers registered and not unsubscribed
  cleared,       \* history: the handlers disconnect() removed
  lastDispatch,  \* history: the last "message:receive" event, or None
  loginCall,     \* history: None or the last login and what it gave its caller
  groupChat,     \* the GroupChat mounted in the page, or None
  chatLoads      \* Chat: loadingMessages, and the chats of the loadConversation
                 \* calls that wait for their response

----------------------------------------------------------------------------
(* Results of calls that may throw *)

Ok(v) == [ok |-> TRUE, val |-> v]

Err(e) == [ok |-> FALSE, err |-> e]

\* the statements after a call run on its value; what it throws propagates
Bind(r, F(_)) == IF r.ok THEN F(r.val) ELSE r

\* try { r } catch (error) { H(error) }
Catch(r, H(_)) == IF r.ok THEN r ELSE H(r.err)

\* try { F(r) } catch (error) { H(error) }
Either(r, F(_), H(_)) == IF r.ok THEN F(r.val) ELSE H(r.err)

----------------------------------------------------------------------------
(* Bytes *)

RECURSIVE Xor(_, _)
Xor(a, b) ==
  IF a = 0 THEN b
  ELSE IF b = 0 THEN a
  ELSE (((a % 2) + (b % 2)) % 2) + 2 * Xor(a \div 2, b \div 2)

RECURSIVE Pow2(_)
Pow2(n) == IF n = 0 THEN 1 ELSE 2 * Pow2(n - 1)

\* the buffer with bit `bit` (0..7) of byte `pos` (1-based) inverted
FlipBit(bytes, pos, bit) ==
  [i \in 1..Len(bytes) |-> IF i = pos THEN Xor(bytes[i], Pow2(bit)) ELSE bytes[i]]

\* big-endian encoding of n (below 2^24) in len bytes
BigEndian(n, len) ==
  [i \in 1..len |-> IF len - i > 2 THEN 0 ELSE (n \div Pow2(8 * (len - i))) % 256]

RECURSIVE BigEndianValue(_)
BigEndianValue(bytes) ==
  IF Len(bytes) = 0 THEN 0
  ELSE 256 * BigEndianValue(SubSeq(bytes, 1, Len(bytes) - 1)) + bytes[Len(bytes)]

\* the number a big-endian buffer encodes, -1 when it is 2^24 or more
FromBigEndian(bytes) ==
  LET n == Len(bytes) IN
  IF \E i \in 1..(n - 3) : bytes[i] # 0 THEN -1
  ELSE BigEndianValue(SubSeq(bytes, IF n > 3 THEN n - 2 ELSE 1, n))

Zeros(len) == [i \in 1..len |-> 0]

\* position-weighted checksum used by the stand-in primitives
RECURSIVE WeightedSum(_, _, _)
WeightedSum(bytes, lo, hi) ==
  IF lo > hi THEN 0
  ELSE IF lo = hi THEN lo * bytes[lo]
  ELSE LET mid == (lo + hi) \div 2 IN
       WeightedSum(bytes, lo, mid) + WeightedSum(bytes, mid + 1, hi)

Digest(bytes) == WeightedSum(bytes, 1, Len(bytes)) % 251

\* keyed expansion of a seed into len bytes; byte 1 determines Digest(seed)
Expand(seed, len) ==
  LET d == Digest(seed) IN [i \in 1..len |-> (d * i + i * i + 17) % 256]

----------------------------------------------------------------------------
(* Strings: TextEncoder / TextDecoder (UTF-8) *)

IsHighSurrogate(c) == c >= 55296 /\ c <= 56319

IsLowSurrogate(c) == c >= 56320 /\ c <= 57343

ReplacementBytes == <<239, 191, 189>>

Utf8OfCodePoint(cp) ==
  IF cp < 128 THEN <<cp>>
  ELSE IF cp < 2048 THEN <<192 + cp \div 64, 128 + (cp % 64)>>
  ELSE IF cp < 65536
    THEN <<224 + cp \div 4096, 128 + ((cp \div 64) % 64), 128 + (cp % 64)>>
  ELSE <<240 + cp \div 262144, 128 + ((cp \div 4096) % 64),
         128 + ((cp \div 64) % 64), 128 + (cp % 64)>>

\* the concatenation of chunk(lo), ..., chunk(hi)
RECURSIVE Concat(_, _, _)
Concat(chunk(_), lo, hi) ==
  IF lo > hi THEN <<>>
  ELSE IF lo = hi THEN chunk(lo)
  ELSE LET mid == (lo + hi) \div 2 IN
       Concat(chunk, lo, mid) \o Concat(chunk, mid + 1, hi)

\* the bytes TextEncoder emits at code unit i: a surrogate pair is one scalar
\* value, emitted at its first half; an unpaired surrogate becomes U+FFFD
EncodeAt(str, i) ==
  LET c == str[i] IN
  IF IsHighSurrogate(c) /\ i < Len(str) /\ IsLowSurrogate(str[i + 1])
    THEN Utf8OfCodePoint(65536 + (c - 55296) * 1024 + (str[i + 1] - 56320))
  ELSE IF IsLowSurrogate(c) /\ i > 1 /\ IsHighSurrogate(str[i - 1]) THEN <<>>
  ELSE IF IsHighSurrogate(c) \/ IsLowSurrogate(c) THEN ReplacementBytes
  ELSE Utf8OfCodePoint(c)

\* new TextEncoder().encode(str)
TextEncode(str) ==
  LET chunk(i) == EncodeAt(str, i) IN Concat(chunk, 1, Len(str))

IsCont(b) == b >= 128 /\ b <= 191

CodeUnitsOf(cp) ==
  IF cp < 65536 THEN <<cp>>
  ELSE <<55296 + (cp - 65536) \div 1024, 56320 + ((cp - 65536) % 1024)>>

\* the length of the well-formed UTF-8 sequence that starts at byte i, 0 if none
SequenceAt(b, i) ==
  LET b1 == b[i]
      n == Len(b) - i + 1 IN
  IF b1 < 128 THEN 1
  ELSE IF b1 >= 194 /\ b1 <= 223 /\ n >= 2 /\ IsCont(b[i + 1]) THEN 2
  ELSE IF b1 >= 224 /\ b1 <= 239 /\ n >= 3 /\ IsCont(b[i + 1]) /\ IsCont(b[i + 2])
          /\ (b1 = 224 => b[i + 1] >= 160) /\ (b1 = 237 => b[i + 1] <= 159) THEN 3
  ELSE IF b1 >= 240 /\ b1 <= 244 /\ n >= 4
          /\ IsCont(b[i + 1]) /\ IsCont(b[i + 2]) /\ IsCont(b[i + 3])
          /\ (b1 = 240 => b[i + 1] >= 144) /\ (b1 = 244 => b[i + 1] <= 143) THEN 4
  ELSE 0

\* the code units the decoder emits at byte i: a scalar value at the first byte
\* of a well-formed sequence, nothing at its other bytes, U+FFFD elsewhere
DecodeAt(b, i) ==
  LET len == SequenceAt(b, i) IN
  IF len = 1 THEN <<b[i]>>
  ELSE IF len = 2 THEN <<(b[i] - 192) * 64 + (b[i + 1] - 128)>>
  ELSE IF len = 3
    THEN <<(b[i] - 224) * 4096 + (b[i + 1] - 128) * 64 + (b[i + 2] - 128)>>
  ELSE IF len = 4
    THEN CodeUnitsOf((b[i] - 240) * 262144 + (b[i + 1] - 128) * 4096
                       + (b[i + 2] - 128) * 64 + (b[i + 3] - 128))
  ELSE IF \E j \in 1..3 : i - j >= 1 /\ SequenceAt(b, i - j) > j THEN <<>>
  ELSE <<65533>>

\* UTF-8 decoding without BOM handling
Utf8Decode(b) ==
  LET chunk(i) == DecodeAt(b, i) IN Concat(chunk, 1, Len(b))

\* new TextDecoder().decode(bytes): default options, fatal = false and
\* ignoreBOM = false, so a leading byte order mark EF BB BF is consumed
TextDecode(bytes) ==
  IF Len(bytes) >= 3 /\ bytes[1] = 239 /\ bytes[2] = 187 /\ bytes[3] = 191
    THEN Utf8Decode(SubSeq(bytes, 4, Len(bytes)))
    ELSE Utf8Decode(bytes)

----------------------------------------------------------------------------
(* Base64: btoa / atob *)

B64Char(i) ==
  IF i < 26 THEN 65 + i
  ELSE IF i < 52 THEN 97 + (i - 26)
  ELSE IF i < 62 THEN 48 + (i - 52)
  ELSE IF i = 62 THEN 43
  ELSE 47

\* index of a base64 alphabet character, -1 for any other code unit
B64Index(c) ==
  IF c >= 65 /\ c <= 90 THEN c - 65
  ELSE IF c >= 97 /\ c <= 122 THEN c - 97 + 26
  ELSE IF c >= 48 /\ c <= 57 THEN c - 48 + 52
  ELSE IF c = 43 THEN 62
  ELSE IF c = 47 THEN 63
  ELSE -1

PadChar == 61

\* btoa of the binary string of a buffer
Btoa(bytes) ==
  LET n == Len(bytes)
      at(k) == IF k <= n THEN bytes[k] ELSE 0 IN
  [j \in 1..(4 * ((n + 2) \div 3)) |->
     LET g == 3 * ((j - 1) \div 4)
         r == (j - 1) % 4 IN
     IF r = 0 THEN B64Char(at(g + 1) \div 4)
     ELSE IF r = 1 THEN B64Char((at(g + 1) % 4) * 16 + at(g + 2) \div 16)
     ELSE IF r = 2
       THEN IF g + 2 > n THEN PadChar
            ELSE B64Char((at(g + 2) % 16) * 4 + at(g + 3) \div 64)
     ELSE IF g + 3 > n THEN PadChar ELSE B64Char(at(g + 3) % 64)]

IsAsciiWhitespace(c) == c \in {9, 10, 12, 13, 32}

NotWhitespace(c) == ~IsAsciiWhitespace(c)

StripWhitespace(str) == SelectSeq(str, NotWhitespace)

StripPadding(str) ==
  LET n == Len(str) IN
  IF n > 0 /\ n % 4 = 0
    THEN IF n >= 2 /\ str[n] = PadChar /\ str[n - 1] = PadChar
           THEN SubSeq(str, 1, n - 2)
         ELSE IF str[n] = PadChar THEN SubSeq(str, 1, n - 1)
         ELSE str
    ELSE str

\* bytes of a padding-free run of alphabet characters; leftover bits dropped
B64Bytes(str) ==
  LET at(k) == IF k <= Len(str) THEN B64Index(str[k]) ELSE 0 IN
  [k \in 1..((Len(str) * 6) \div 8) |->
     LET g == 4 * ((k - 1) \div 3)
         r == (k - 1) % 3 IN
     IF r = 0 THEN at(g + 1) * 4 + at(g + 2) \div 16
     ELSE IF r = 1 THEN (at(g + 2) % 16) * 16 + at(g + 3) \div 4
     ELSE (at(g + 3) % 4) * 64 + at(g + 4)]

\* atob (forgiving-base64 decode); throws InvalidCharacterError
Atob(str) ==
  LET data == StripPadding(StripWhitespace(str)) IN
  IF Len(data) % 4 = 1 \/ \E i \in 1..Len(data) : B64Index(data[i]) = -1
    THEN Err("InvalidCharacterError")
    ELSE Ok(B64Bytes(data))

\* CryptoService.arrayBufferToBase64
arrayBufferToBase64(buffer) ==
  IF Len(buffer) = 0 THEN Err("Buffer vazio") ELSE Ok(Btoa(buffer))

\* CryptoService.base64ToArrayBuffer; the empty string stands for every falsy
\* argument (empty string, undefined, null)
base64ToArrayBuffer(base64) ==
  IF Len(base64) = 0 THEN Err("Base64 invalido") ELSE Atob(base64)

----------------------------------------------------------------------------
(* Web Crypto stand-ins: ECDH on P-256 *)

\* the prime-order group standing for the curve P-256: the subgroup of order
\* GroupQ generated by GroupG in the units modulo GroupP
GroupP == 23

GroupQ == 11

GroupG == 2

RECURSIVE ModExp(_, _)
ModExp(b, e) == IF e = 0 THEN 1 ELSE (b * ModExp(b, e - 1)) % GroupP

\* private scalars
Scalars == 1..(GroupQ - 1)

SharedSecretBits == 256

CoordBytes == SharedSecretBits \div 8

PrivateKeyOf(d) == [type |-> "private", d |-> d]

PublicKeyOf(pt) == [type |-> "public", pt |-> pt]

\* crypto.subtle.exportKey("raw", publicKey): the uncompressed-point marker
\* followed by the coordinate
ExportRaw(key) == <<4>> \o BigEndian(key.pt, CoordBytes)

IsGroupPoint(pt) == pt > 1 /\ pt < GroupP /\ ModExp(pt, GroupQ) = 1

\* stands for no scalar: generateKey rejects instead of drawing one
NoDraw == 0

generateKeyPair_Mutant(d) ==
  LET scalar == IF d \in Scalars THEN d ELSE 1
      point == PublicKeyOf(ModExp(GroupG, scalar)) IN
  Ok([privateKey |-> PrivateKeyOf(scalar),
      publicKey |-> point,
      publicKeyRaw |-> ExportRaw(point)])

\* CryptoService.generateKeyPair; d is the scalar generateKey draws, no
\* scalar when generateKey rejects: the rejection is rethrown
generateKeyPair(d) ==
  IF d \notin Scalars THEN Err("OperationError")
  ELSE
    LET point == PublicKeyOf(ModExp(GroupG, d)) IN
    Ok([privateKey |-> PrivateKeyOf(d),
        publicKey |-> point,
        publicKeyRaw |-> ExportRaw(point)])

\* CryptoService.importPublicKey: importKey("raw", ...) rejects a buffer that
\* is not a point of the curve
importPublicKey(rawKey) ==
  IF Len(rawKey) = 1 + CoordBytes /\ rawKey[1] = 4
       /\ IsGroupPoint(FromBigEndian(Tail(rawKey)))
    THEN Ok(PublicKeyOf(FromBigEndian(Tail(rawKey))))
    ELSE Err("DataError")

computeSharedSecret_Mutant(myPrivateKey, theirPublicKey) ==
  IF myPrivateKey.type = "private" /\ theirPublicKey.type = "public"
    THEN Ok(BigEndian((theirPublicKey.pt * myPrivateKey.d) % GroupP, CoordBytes))
    ELSE Err("InvalidAccessError")

\* CryptoService.computeSharedSecret: deriveBits({name: "ECDH", public}, priv, 256)
computeSharedSecret(myPrivateKey, theirPublicKey) ==
  IF myPrivateKey.type = "private" /\ theirPublicKey.type = "public"
    THEN Ok(BigEndian(ModExp(theirPublicKey.pt, myPrivateKey.d), CoordBytes))
    ELSE Err("InvalidAccessError")

----------------------------------------------------------------------------
(* Web Crypto stand-ins: HKDF, PBKDF2, AES-256-GCM *)

AESKeyBits == 256

AESKeyBytes == AESKeyBits \div 8

NonceBytes == 12

SaltBytes == 16

GcmTagBytes == 16

AesKeyOf(material) == [type |-> "secret", k |-> material]

\* new Uint8Array(32)
HkdfSalt == Zeros(32)

\* new TextEncoder().encode("chat-encryption-v1")
HkdfInfo ==
  TextEncode(<<99, 104, 97, 116, 45, 101, 110, 99, 114, 121, 112, 116, 105,
               111, 110, 45, 118, 49>>)

\* the key derived from salt and label alone
deriveAESKey_Mutant(sharedSecret) ==
  IF Len(sharedSecret) = 0 THEN Err("DataError")
  ELSE Ok(AesKeyOf(Expand(HkdfSalt \o HkdfInfo, AESKeyBytes)))

\* CryptoService.deriveAESKey: HKDF-SHA256 of the shared secret
deriveAESKey(sharedSecret) ==
  IF Len(sharedSecret) = 0 THEN Err("DataError")
  ELSE Ok(AesKeyOf(Expand(sharedSecret \o HkdfSalt \o HkdfInfo, AESKeyBytes)))

\* CryptoService.deriveKeyFromPassword: PBKDF2-SHA256 of password and salt
deriveKeyFromPassword(password, salt) ==
  Ok(AesKeyOf(Expand(TextEncode(password) \o salt, AESKeyBytes)))

KeyStream(key, iv, len) == Expand(key.k \o iv, len)

XorBytes(a, b) == [i \in 1..Len(a) |-> Xor(a[i], b[i])]

GcmTag(key, iv, body) ==
  LET sum == Digest(iv) + Digest(body) IN
  [i \in 1..GcmTagBytes |-> (key.k[i] + sum) % 256]

\* crypto.subtle.encrypt({name: "AES-GCM", iv}, key, data): ciphertext then tag
AesGcmEncrypt(key, iv, data) ==
  IF key.type # "secret" THEN Err("InvalidAccessError")
  ELSE IF Len(iv) = 0 THEN Err("OperationError")
  ELSE LET body == XorBytes(data, KeyStream(key, iv, Len(data))) IN
       Ok(body \o GcmTag(key, iv, body))

\* the same call under an unauthenticated mode: no tag is checked
AesGcmDecrypt_Mutant(key, iv, data) ==
  LET n == IF Len(data) >= GcmTagBytes THEN Len(data) - GcmTagBytes ELSE 0
      body == SubSeq(data, 1, n) IN
  Ok(XorBytes(body, KeyStream(key, iv, n)))

\* crypto.subtle.decrypt({name: "AES-GCM", iv}, key, data): OperationError
\* unless the tag authenticates the ciphertext under this key and IV
AesGcmDecrypt(key, iv, data) ==
  IF key.type # "secret" THEN Err("InvalidAccessError")
  ELSE IF Len(iv) = 0 \/ Len(data) < GcmTagBytes THEN Err("OperationError")
  ELSE LET n == Len(data) - GcmTagBytes
           body == SubSeq(data, 1, n)
           tag == SubSeq(data, n + 1, Len(data)) IN
       IF tag = GcmTag(key, iv, body)
         THEN Ok(XorBytes(body, KeyStream(key, iv, n)))
         ELSE Err("OperationError")

----------------------------------------------------------------------------
(* CryptoService: messages *)

\* CryptoService.encryptMessage; nonce is what getRandomValues draws
encryptMessage(message, aesKey, nonce) ==
  Bind(AesGcmEncrypt(aesKey, nonce, TextEncode(message)), LAMBDA encryptedBuffer :
  Bind(arrayBufferToBase64(encryptedBuffer), LAMBDA encryptedData :
  Bind(arrayBufferToBase64(nonce), LAMBDA nonceB64 :
    Ok([encryptedData |-> encryptedData, nonce |-> nonceB64]))))

DecryptionFailure == "Falha na descriptografia"

\* the body of decryptMessage's try block
decryptMessageTry(encryptedData, nonce, aesKey) ==
  Bind(base64ToArrayBuffer(encryptedData), LAMBDA encryptedBuffer :
  Bind(base64ToArrayBuffer(nonce), LAMBDA nonceBuffer :
  Bind(AesGcmDecrypt(aesKey, nonceBuffer, encryptedBuffer), LAMBDA decryptedBuffer :
    Ok(TextDecode(decryptedBuffer)))))

\* CryptoService.decryptMessage: every failure is rethrown as one Error
decryptMessage(encryptedData, nonce, aesKey) ==
  Catch(decryptMessageTry(encryptedData, nonce, aesKey),
        LAMBDA error : Err(DecryptionFailure))

----------------------------------------------------------------------------
(* CryptoService: the private key under a password *)

\* base64url without padding, the encoding of JWK members
NotPadChar(c) == c # PadChar

ToUrlAlphabet(str) ==
  LET kept == SelectSeq(str, NotPadChar) IN
  [i \in 1..Len(kept) |->
     IF kept[i] = 43 THEN 45 ELSE IF kept[i] = 47 THEN 95 ELSE kept[i]]

B64UrlEncode(bytes) == ToUrlAlphabet(Btoa(bytes))

B64UrlDecode(str) ==
  IF \E i \in 1..Len(str) : str[i] \in {43, 47, PadChar} \/ IsAsciiWhitespace(str[i])
    THEN Err("DataError")
  ELSE Catch(Atob([i \in 1..Len(str) |->
                     IF str[i] = 45 THEN 43 ELSE IF str[i] = 95 THEN 47 ELSE str[i]]),
             LAMBDA error : Err("DataError"))

\* crypto.subtle.exportKey("jwk", privateKey): the members that vary with the
\* key (d, and the public point as x); kty and crv are fixed
ExportJwk(key) ==
  [kty |-> "EC", crv |-> "P-256",
   d |-> B64UrlEncode(BigEndian(key.d, CoordBytes)),
   x |-> B64UrlEncode(BigEndian(ModExp(GroupG, key.d), CoordBytes))]

\* crypto.subtle.importKey("jwk", jwk, {name: "ECDH", namedCurve: "P-256"}, ...)
ImportJwk(jwk) ==
  IF jwk.kty # "EC" \/ jwk.crv # "P-256" THEN Err("DataError")
  ELSE Bind(B64UrlDecode(jwk.d), LAMBDA d :
       Bind(B64UrlDecode(jwk.x), LAMBDA x :
         IF Len(d) # CoordBytes \/ Len(x) # CoordBytes THEN Err("DataError")
         ELSE IF FromBigEndian(d) \notin Scalars THEN Err("DataError")
         ELSE IF FromBigEndian(x) # ModExp(GroupG, FromBigEndian(d))
           THEN Err("DataError")
         ELSE Ok(PrivateKeyOf(FromBigEndian(d)))))

\* {"crv":"P-256","d":"
JwkTextHead ==
  <<123, 34, 99, 114, 118, 34, 58, 34, 80, 45, 50, 53, 54, 34, 44, 34, 100,
    34, 58, 34>>

\* ","kty":"EC","x":"
JwkTextMid ==
  <<34, 44, 34, 107, 116, 121, 34, 58, 34, 69, 67, 34, 44, 34, 120, 34, 58, 34>>

\* "}
JwkTextTail == <<34, 125>>

\* JSON.stringify(jwk)
JsonStringifyJwk(jwk) ==
  JwkTextHead \o jwk.d \o JwkTextMid \o jwk.x \o JwkTextTail

\* the length of the longest prefix of str free of the double quote
UntilQuote(str) ==
  CHOOSE k \in 0..Len(str) :
    /\ \A i \in 1..k : str[i] # 34
    /\ (k = Len(str) \/ str[k + 1] = 34)

StartsWith(str, prefix) ==
  Len(str) >= Len(prefix) /\ SubSeq(str, 1, Len(prefix)) = prefix

\* JSON.parse of a serialized JWK; SyntaxError on any other text
JsonParseJwk(text) ==
  IF ~StartsWith(text, JwkTextHead) THEN Err("SyntaxError")
  ELSE LET afterHead == SubSeq(text, Len(JwkTextHead) + 1, Len(text))
           dLen == UntilQuote(afterHead)
           afterD == SubSeq(afterHead, dLen + 1, Len(afterHead)) IN
    IF ~StartsWith(afterD, JwkTextMid) THEN Err("SyntaxError")
    ELSE LET afterMid == SubSeq(afterD, Len(JwkTextMid) + 1, Len(afterD))
             xLen == UntilQuote(afterMid)
             rest == SubSeq(afterMid, xLen + 1, Len(afterMid)) IN
      IF rest # JwkTextTail THEN Err("SyntaxError")
      ELSE Ok([kty |-> "EC", crv |-> "P-256",
               d |-> SubSeq(afterHead, 1, dLen),
               x |-> SubSeq(afterMid, 1, xLen)])

\* the record with salt and iv exchanged
encryptPrivateKey_Mutant(key, password, salt, iv) ==
  Bind(deriveKeyFromPassword(password, salt), LAMBDA derivedKey :
  Bind(AesGcmEncrypt(derivedKey, iv, TextEncode(JsonStringifyJwk(ExportJwk(key)))),
       LAMBDA encryptedData :
  Bind(arrayBufferToBase64(encryptedData), LAMBDA e :
  Bind(arrayBufferToBase64(salt), LAMBDA s :
  Bind(arrayBufferToBase64(iv), LAMBDA i :
    Ok([encryptedPrivateKey |-> e, salt |-> i, iv |-> s]))))))

\* CryptoService.encryptPrivateKey; salt and iv are what getRandomValues draws
encryptPrivateKey(key, password, salt, iv) ==
  Bind(deriveKeyFromPassword(password, salt), LAMBDA derivedKey :
  Bind(AesGcmEncrypt(derivedKey, iv, TextEncode(JsonStringifyJwk(ExportJwk(key)))),
       LAMBDA encryptedData :
  Bind(arrayBufferToBase64(encryptedData), LAMBDA e :
  Bind(arrayBufferToBase64(salt), LAMBDA s :
  Bind(arrayBufferToBase64(iv), LAMBDA i :
    Ok([encryptedPrivateKey |-> e, salt |-> s, iv |-> i]))))))

\* the body of decryptPrivateKey's try block
decryptPrivateKeyTry(encryptedPrivateKey, salt, iv, password) ==
  Bind(base64ToArrayBuffer(encryptedPrivateKey), LAMBDA encryptedData :
  Bind(base64ToArrayBuffer(salt), LAMBDA saltBytes :
  Bind(base64ToArrayBuffer(iv), LAMBDA ivBytes :
  Bind(deriveKeyFromPassword(password, saltBytes), LAMBDA derivedKey :
  Bind(AesGcmDecrypt(derivedKey, ivBytes, encryptedData), LAMBDA decryptedData :
  Bind(JsonParseJwk(TextDecode(decryptedData)), LAMBDA privateKeyJWK :
    ImportJwk(privateKeyJWK)))))))

WrongPassword == "Senha incorreta"

PrivateKeyFailure == "Falha ao decifrar chave privada"

decryptPrivateKey_Mutant(encryptedPrivateKey, salt, iv, password) ==
  Catch(decryptPrivateKeyTry(encryptedPrivateKey, salt, iv, password),
        LAMBDA error : Err(PrivateKeyFailure))

\* CryptoService.decryptPrivateKey: an OperationError is rethrown as
\* "Senha incorreta", any other failure as "Falha ao decifrar chave privada"
decryptPrivateKey(encryptedPrivateKey, salt, iv, password) ==
  Catch(decryptPrivateKeyTry(encryptedPrivateKey, salt, iv, password),
        LAMBDA error : IF error = "OperationError" THEN Err(WrongPassword)
                       ELSE Err(PrivateKeyFailure))

----------------------------------------------------------------------------
(* CryptoService: group keys *)

\* CryptoService.generateGroupKey; material is what generateKey draws
generateGroupKey(material) == Ok(AesKeyOf(material))

\* CryptoService.exportGroupKey
exportGroupKey(key) == Ok(key.k)

\* CryptoService.importGroupKey: importKey("raw", ..., AES-GCM) rejects a
\* buffer that is not a key length
importGroupKey(keyBytes) ==
  IF Len(keyBytes) = AESKeyBytes THEN Ok(AesKeyOf(keyBytes)) ELSE Err("DataError")

\* str.split(":"): the parts between separators
RECURSIVE Split(_, _)
Split(str, sep) ==
  LET n == CHOOSE k \in 0..Len(str) :
             /\ \A i \in 1..k : str[i] # sep
             /\ (k = Len(str) \/ str[k + 1] = sep) IN
  IF n = Len(str) THEN <<str>>
  ELSE <<SubSeq(str, 1, n)>> \o Split(SubSeq(str, n + 2, Len(str)), sep)

Colon == 58

encryptGroupKeyForMember_Mutant(groupKey, memberPublicKeyRaw, d, nonce) ==
  Bind(generateKeyPair(d), LAMBDA ephemeralKeys :
  Bind(importPublicKey(memberPublicKeyRaw), LAMBDA memberPublicKey :
  Bind(computeSharedSecret(ephemeralKeys.privateKey, memberPublicKey),
       LAMBDA sharedSecret :
  Bind(deriveAESKey(sharedSecret), LAMBDA wrapKey :
  Bind(AesGcmEncrypt(wrapKey, nonce, groupKey), LAMBDA encryptedData :
  Bind(arrayBufferToBase64(encryptedData), LAMBDA e :
  Bind(arrayBufferToBase64(nonce), LAMBDA n :
  Bind(arrayBufferToBase64(ephemeralKeys.publicKeyRaw), LAMBDA p :
    Ok([encryptedGroupKey |-> e \o <<Colon>> \o n,
        ephemeralPublicKey |-> p])))))))))

\* CryptoService.encryptGroupKeyForMember; d is the ephemeral scalar and nonce
\* the nonce that are drawn
encryptGroupKeyForMember(groupKey, memberPublicKeyRaw, d, nonce) ==
  Bind(generateKeyPair(d), LAMBDA ephemeralKeys :
  Bind(importPublicKey(memberPublicKeyRaw), LAMBDA memberPublicKey :
  Bind(computeSharedSecret(ephemeralKeys.privateKey, memberPublicKey),
       LAMBDA sharedSecret :
  Bind(deriveAESKey(sharedSecret), LAMBDA wrapKey :
  Bind(arrayBufferToBase64(groupKey), LAMBDA groupKeyB64 :
  Bind(AesGcmEncrypt(wrapKey, nonce, TextEncode(groupKeyB64)), LAMBDA encryptedData :
  Bind(arrayBufferToBase64(encryptedData), LAMBDA e :
  Bind(arrayBufferToBase64(nonce), LAMBDA n :
  Bind(arrayBufferToBase64(ephemeralKeys.publicKeyRaw), LAMBDA p :
    Ok([encryptedGroupKey |-> e \o <<Colon>> \o n,
        ephemeralPublicKey |-> p]))))))))))

InvalidFormat == "Formato de chave cifrada invalido"

\* CryptoService.decryptGroupKey: every failure is rethrown unchanged
decryptGroupKey(encryptedGroupKey, ephemeralPublicKeyB64, myPrivateKey) ==
  LET parts == Split(encryptedGroupKey, Colon)
      encryptedData == parts[1]
      nonce == IF Len(parts) >= 2 THEN parts[2] ELSE <<>> IN
  IF Len(encryptedData) = 0 \/ Len(nonce) = 0 THEN Err(InvalidFormat)
  ELSE
    Bind(base64ToArrayBuffer(ephemeralPublicKeyB64), LAMBDA ephemeralPublicKeyRaw :
    Bind(importPublicKey(ephemeralPublicKeyRaw), LAMBDA ephemeralPublicKey :
    Bind(computeSharedSecret(myPrivateKey, ephemeralPublicKey), LAMBDA sharedSecret :
    Bind(deriveAESKey(sharedSecret), LAMBDA wrapKey :
    Bind(base64ToArrayBuffer(encryptedData), LAMBDA encryptedBuffer :
    Bind(base64ToArrayBuffer(nonce), LAMBDA nonceBuffer :
    Bind(AesGcmDecrypt(wrapKey, nonceBuffer, encryptedBuffer), LAMBDA decryptedData :
      base64ToArrayBuffer(TextDecode(decryptedData)))))))))

encryptGroupMessage_Mutant(message, groupKey, nonce) ==
  encryptMessage(message, groupKey, [i \in 1..NonceBytes |-> i])

\* CryptoService.encryptGroupMessage
encryptGroupMessage(message, groupKey, nonce) == encryptMessage(message, groupKey, nonce)

\* CryptoService.decryptGroupMessage
decryptGroupMessage(encryptedData, nonce, groupKey) ==
  decryptMessage(encryptedData, nonce, groupKey)

----------------------------------------------------------------------------
(* Chat (GroupChat.tsx): the cryptography of a direct message *)

\* the code units String.prototype.trim removes
IsTrimmed(c) ==
  c \in {9, 10, 11, 12, 13, 32, 160, 5760, 8232, 8233, 8239, 8287, 12288, 65279}
    \/ (c >= 8192 /\ c <= 8202)

\* !messageInput.trim()
IsBlank(str) == \A i \in 1..Len(str) : IsTrimmed(str[i])

\* one ephemeral encryption of Chat.sendMessage: generateKeyPair,
\* computeSharedSecret, deriveAESKey, encryptMessage; d and nonce are drawn
encryptFor(messageInput, theirPublicKey, d, nonce) ==
  Bind(generateKeyPair(d), LAMBDA ephemeralKeys :
  Bind(computeSharedSecret(ephemeralKeys.privateKey, theirPublicKey),
       LAMBDA sharedSecret :
  Bind(deriveAESKey(sharedSecret), LAMBDA aesKey :
  Bind(encryptMessage(messageInput, aesKey, nonce), LAMBDA enc :
  Bind(arrayBufferToBase64(ephemeralKeys.publicKeyRaw), LAMBDA pk :
    Ok([encryptedData |-> enc.encryptedData, nonce |-> enc.nonce, ephemPk |-> pk]))))))

sendMessagePayload_Mutant(messageInput, senderId, receiverId, receiverPublicKeyB64, myPublicKeyRaw, rnd) ==
  Bind(base64ToArrayBuffer(receiverPublicKeyB64), LAMBDA receiverPublicKeyRaw :
  Bind(importPublicKey(receiverPublicKeyRaw), LAMBDA receiverPublicKey :
  Bind(encryptFor(messageInput, receiverPublicKey, rnd.dReceiver, rnd.nonceReceiver),
       LAMBDA forReceiver :
  Bind(importPublicKey(myPublicKeyRaw), LAMBDA myPublicKey :
  Bind(encryptFor(messageInput, myPublicKey, rnd.dReceiver, rnd.nonceSelf),
       LAMBDA forSelf :
    Ok([senderId |-> senderId,
        receiverId |-> receiverId,
        encryptedData |-> forReceiver.encryptedData,
        nonce |-> forReceiver.nonce,
        senderEphemPk |-> forReceiver.ephemPk,
        senderEncryptedData |-> forSelf.encryptedData,
        senderNonce |-> forSelf.nonce,
        senderEphemPkForSelf |-> forSelf.ephemPk]))))))

\* Chat.sendMessage, from the receiver's public key to the emitted payload:
\* one encryption for the receiver, one for the sender; rnd holds the two
\* ephemeral scalars and the two nonces that are drawn
sendMessagePayload(messageInput, senderId, receiverId, receiverPublicKeyB64, myPublicKeyRaw, rnd) ==
  Bind(base64ToArrayBuffer(receiverPublicKeyB64), LAMBDA receiverPublicKeyRaw :
  Bind(importPublicKey(receiverPublicKeyRaw), LAMBDA receiverPublicKey :
  Bind(encryptFor(messageInput, receiverPublicKey, rnd.dReceiver, rnd.nonceReceiver),
       LAMBDA forReceiver :
  Bind(importPublicKey(myPublicKeyRaw), LAMBDA myPublicKey :
  Bind(encryptFor(messageInput, myPublicKey, rnd.dSelf, rnd.nonceSelf),
       LAMBDA forSelf :
    Ok([senderId |-> senderId,
        receiverId |-> receiverId,
        encryptedData |-> forReceiver.encryptedData,
        nonce |-> forReceiver.nonce,
        senderEphemPk |-> forReceiver.ephemPk,
        senderEncryptedData |-> forSelf.encryptedData,
        senderNonce |-> forSelf.nonce,
        senderEphemPkForSelf |-> forSelf.ephemPk]))))))

\* the decryption shared by Chat.decryptAndAddMessage and both branches of
\* Chat.loadConversation: base64ToArrayBuffer, importPublicKey,
\* computeSharedSecret, deriveAESKey, decryptMessage
decryptWith(myPrivateKey, ephemPkB64, encryptedData, nonce) ==
  Bind(base64ToArrayBuffer(ephemPkB64), LAMBDA ephemPkRaw :
  Bind(importPublicKey(ephemPkRaw), LAMBDA ephemPk :
  Bind(computeSharedSecret(myPrivateKey, ephemPk), LAMBDA sharedSecret :
  Bind(deriveAESKey(sharedSecret), LAMBDA aesKey :
    decryptMessage(encryptedData, nonce, aesKey)))))

\* Chat.decryptAndAddMessage, up to decryptedText
decryptIncoming(encryptedMessage, myPrivateKey) ==
  decryptWith(myPrivateKey, encryptedMessage.senderEphemPk,
              encryptedMessage.encryptedData, encryptedMessage.nonce)

----------------------------------------------------------------------------
(* State *)

labVars == <<scenario, sealed, opened>>

authVars == <<user, privateKey, publicKey, publicKeyRaw>>

chatVars == <<socket, socketUser, selectedChat, messages>>

appVars ==
  <<user, privateKey, publicKey, publicKeyRaw, localStorage, socket, socketUser,
    selectedChat, messages, directory, emitted>>

\* what is recorded of the calls of handleCreateGroup
createVars == <<lastCreate, posted>>

groupVars ==
  <<rng, creating, groups, groupMessages, directMessages, storedGroupKeys,
    chatGroupKey, generated, wrapCalls, createVars>>

\* SocketService: its fields, the sockets it created, and the server's record
serviceVars ==
  <<serviceSocket, sockets, messageHandlers, handlersMade, live, cleared,
    lastDispatch>>

\* the components of the page: GroupChat, and the loadConversation calls of Chat
componentVars == <<groupChat, chatLoads>>

pageVars == <<serviceVars, loginCall, componentVars>>

vars == <<labVars, appVars, groupVars, pageVars>>

None == [kind |-> "none"]

----------------------------------------------------------------------------
(* Input domains *)

\* code units of the texts: "h", U+FEFF, and the two halves of U+1F600
Alphabet == {104, 65279, 55357, 56832}

MaxTextLen == 2

Texts == UNION {[1..n -> Alphabet] : n \in 0..MaxTextLen}

Nonces ==
  {[i \in 1..NonceBytes |-> i], [i \in 1..NonceBytes |-> 255 - i]}

SaltValues ==
  {[i \in 1..SaltBytes |-> 3 * i], [i \in 1..SaltBytes |-> 200 - i]}

GroupKeyMaterials ==
  {[i \in 1..AESKeyBytes |-> i], [i \in 1..AESKeyBytes |-> (7 * i + 3) % 256]}

\* "correct-horse", "wrong-horse", "pé€", and two strings of one unpaired
\* surrogate each ("\uD800", "\uD801")
Passwords ==
  {<<99, 111, 114, 114, 101, 99, 116, 45, 104, 111, 114, 115, 101>>,
   <<119, 114, 111, 110, 103, 45, 104, 111, 114, 115, 101>>,
   <<112, 233, 8364>>,
   <<55296>>,
   <<55297>>}

\* private scalars of identity key pairs and of ephemeral key pairs
IdentityScalars == {3, 5, 7}

EphemeralScalars == {2, 5}

SymmetricKeys ==
  {deriveAESKey(BigEndian(pt, CoordBytes)).val : pt \in {2, 3}}
    \cup {AesKeyOf([i \in 1..AESKeyBytes |-> i])}

RandomDraws ==
  [dReceiver : EphemeralScalars, nonceReceiver : Nonces,
   dSelf : {9}, nonceSelf : {[i \in 1..NonceBytes |-> 2 * i]}]

Scenarios ==
  [kind : {"message"}, message : Texts, key : SymmetricKeys, nonce : Nonces]
    \cup [kind : {"direct"}, message : {t \in Texts : ~IsBlank(t)},
          sender : IdentityScalars, receiver : IdentityScalars, rnd : RandomDraws]
    \cup [kind : {"vault"}, d : IdentityScalars, password : Passwords,
          salt : SaltValues, iv : Nonces]
    \cup [kind : {"ecdh"}, a : Scalars, b : Scalars]
    \cup [kind : {"group"}, groupKey : GroupKeyMaterials, member : IdentityScalars,
          d : EphemeralScalars, nonce : Nonces]

PublicKeyRawOf(d) == generateKeyPair(d).val.publicKeyRaw

PublicKeyB64Of(d) == arrayBufferToBase64(PublicKeyRawOf(d)).val

----------------------------------------------------------------------------
(* AuthProvider (AuthContext.tsx) and Chat (GroupChat.tsx) in one browser,
   with the server they talk to.  The server stores the body of an accepted
   registration and every "message:send" event, and returns them unchanged. *)

Users == {"alice", "bob"}

\* the code units of a user id
IdText(id) ==
  IF id = "alice" THEN <<97, 108, 105, 99, 101>> ELSE <<98, 111, 98>>

\* {"id":"
UserTextHead == <<123, 34, 105, 100, 34, 58, 34>>

\* ","publicKey":"
UserTextMid ==
  <<34, 44, 34, 112, 117, 98, 108, 105, 99, 75, 101, 121, 34, 58, 34>>

\* JSON.stringify(data) of the user the server returned (id and publicKey;
\* name, e-mail and phone are not modelled)
JsonStringifyUser(data) ==
  UserTextHead \o IdText(data.id) \o UserTextMid \o data.publicKey \o JwkTextTail

\* JSON.parse(savedUser); the ids are those of Users
JsonParseUser(text) ==
  IF ~StartsWith(text, UserTextHead) THEN Err("SyntaxError")
  ELSE LET afterHead == SubSeq(text, Len(UserTextHead) + 1, Len(text))
           idLen == UntilQuote(afterHead)
           idText == SubSeq(afterHead, 1, idLen)
           afterId == SubSeq(afterHead, idLen + 1, Len(afterHead)) IN
    IF ~StartsWith(afterId, UserTextMid) THEN Err("SyntaxError")
    ELSE LET afterMid == SubSeq(afterId, Len(UserTextMid) + 1, Len(afterId))
             keyLen == UntilQuote(afterMid)
             rest == SubSeq(afterMid, keyLen + 1, Len(afterMid)) IN
      IF rest # JwkTextTail \/ ~(\E u \in Users : IdText(u) = idText)
        THEN Err("SyntaxError")
      ELSE Ok([id |-> CHOOSE u \in Users : IdText(u) = idText,
               publicKey |-> SubSeq(afterMid, 1, keyLen)])

\* the passwords typed at the forms
TypedPasswords == {p \in Passwords : \A i \in 1..Len(p) : p[i] < 128}

\* what generateKey and getRandomValues return during the registration of a
\* user: distinct users never draw the same key pair
RegisterDraw(email) ==
  IF email = "alice"
    THEN [d |-> 3, salt |-> [i \in 1..SaltBytes |-> 3 * i],
          iv |-> [i \in 1..NonceBytes |-> i]]
    ELSE [d |-> 7, salt |-> [i \in 1..SaltBytes |-> 200 - i],
          iv |-> [i \in 1..NonceBytes |-> 255 - i]]

\* the messages typed: "h" and U+FEFF followed by "h"
TypedMessages == {<<104>>, <<65279, 104>>}

\* what generateKey and getRandomValues return during one sendMessage
SendDraws ==
  {[dReceiver |-> 2, nonceReceiver |-> [i \in 1..NonceBytes |-> i],
    dSelf |-> 5, nonceSelf |-> [i \in 1..NonceBytes |-> 255 - i]],
   [dReceiver |-> 5, nonceReceiver |-> [i \in 1..NonceBytes |-> 2 * i],
    dSelf |-> 9, nonceSelf |-> [i \in 1..NonceBytes |-> 2 * i]]}

\* the number of "message:send" events of a behaviour
MaxSends == 2

\* "[Erro ao descriptografar]"
UndecryptableText ==
  <<91, 69, 114, 114, 111, 32, 97, 111, 32, 100, 101, 115, 99, 114, 105, 112,
    116, 111, 103, 114, 97, 102, 97, 114, 93>>

EmptyStorage == [user |-> None, privateKeyJWK |-> None]

InitApp ==
  /\ user = None
  /\ privateKey = None
  /\ publicKey = None
  /\ publicKeyRaw = None
  /\ localStorage = EmptyStorage
  /\ socket = None
  /\ socketUser = None
  /\ selectedChat = None
  /\ messages = <<>>
  /\ directory = [u \in Users |-> None]
  /\ emitted = <<>>

\* the users of the groups
Members == {"alice", "bob", "carol"}

InitGroups ==
  /\ rng = [keys |-> 0, nonces |-> 0]
  /\ creating = None
  /\ groups = <<>>
  /\ groupMessages = <<>>
  /\ directMessages = <<>>
  /\ storedGroupKeys = [u \in Members |-> <<>>]
  /\ chatGroupKey = [u \in Members |-> <<>>]
  /\ generated = <<>>
  /\ wrapCalls = <<>>
  /\ lastCreate = None
  /\ posted = <<>>

\* SocketService as the module is loaded
InitService ==
  /\ serviceSocket = 0
  /\ sockets = <<>>
  /\ messageHandlers = <<>>
  /\ handlersMade = 0
  /\ live = {}
  /\ cleared = {}
  /\ lastDispatch = None

InitPage ==
  /\ InitService
  /\ loginCall = None
  /\ groupChat = None
  /\ chatLoads = [pending |-> <<>>, loadingMessages |-> FALSE]

Init ==
  /\ scenario = None
  /\ sealed = None
  /\ opened = None
  /\ InitApp
  /\ InitGroups
  /\ InitPage

\* localStorage.setItem("user", ...) and localStorage.setItem("privateKeyJWK", ...)
\* as register and login end
SessionStorage(data, key) ==
  [user |-> [text |-> JsonStringifyUser(data)],
   privateKeyJWK |-> [text |-> JsonStringifyJwk(ExportJwk(key))]]

\* AuthProvider.register up to the request: the body posted, and the state
\* and storage written once the server has accepted it
RegisterOutcome(email, password) ==
  Bind(generateKeyPair(RegisterDraw(email).d), LAMBDA keys :
  Bind(arrayBufferToBase64(keys.publicKeyRaw), LAMBDA publicKeyB64 :
  Bind(encryptPrivateKey(keys.privateKey, password, RegisterDraw(email).salt,
                         RegisterDraw(email).iv), LAMBDA vault :
    Ok([body |-> [email |-> email,
                  password |-> password,
                  publicKey |-> publicKeyB64,
                  encryptedPrivateKey |-> vault.encryptedPrivateKey,
                  salt |-> vault.salt,
                  iv |-> vault.iv],
        user |-> [id |-> email, publicKey |-> publicKeyB64],
        privateKey |-> keys.privateKey,
        publicKey |-> keys.publicKey,
        publicKeyRaw |-> [bytes |-> keys.publicKeyRaw],
        localStorage |-> SessionStorage([id |-> email, publicKey |-> publicKeyB64],
                                        keys.privateKey)]))))

\* RegisterOutcome at every e-mail and password, computed once
RegisterOutcomes ==
  [email \in Users, password \in TypedPasswords |-> RegisterOutcome(email, password)]

\* the request bodies of register
RegisterBodies ==
  {RegisterOutcomes[email, password].val.body :
     email \in Users, password \in TypedPasswords}

\* AuthProvider.register; the server refuses an e-mail it already holds
Register(email, password) ==
  LET outcome == RegisterOutcomes[email, password] IN
  IF ~outcome.ok \/ directory[email] # None THEN UNCHANGED vars
  ELSE /\ directory' = [directory EXCEPT ![email] = outcome.val.body]
       /\ user' = outcome.val.user
       /\ privateKey' = outcome.val.privateKey
       /\ publicKey' = outcome.val.publicKey
       /\ publicKeyRaw' = outcome.val.publicKeyRaw
       /\ localStorage' = outcome.val.localStorage
       /\ UNCHANGED <<labVars, pageVars, groupVars, chatVars, emitted>>

\* AuthProvider.login from the response on: data is what the server returned
LoginOutcome(data, password) ==
  IF Len(data.encryptedPrivateKey) = 0 \/ Len(data.salt) = 0 \/ Len(data.iv) = 0
    THEN Err("Chave privada nao encontrada")
  ELSE
    Bind(decryptPrivateKey(data.encryptedPrivateKey, data.salt, data.iv, password),
         LAMBDA privKey :
    Bind(base64ToArrayBuffer(data.publicKey), LAMBDA pubKeyRaw :
    Bind(importPublicKey(pubKeyRaw), LAMBDA pubKey :
      Ok([user |-> [id |-> data.email, publicKey |-> data.publicKey],
          privateKey |-> privKey,
          publicKey |-> pubKey,
          publicKeyRaw |-> [bytes |-> pubKeyRaw],
          localStorage |-> SessionStorage([id |-> data.email,
                                           publicKey |-> data.publicKey], privKey)]))))

\* how POST /auth/login answers the password of the account: with the
\* record as it was registered, with a record that has no encrypted private
\* key, or with a record whose private key was encrypted under another
\* password
ServedAs == {"stored", "noKey", "otherKey"}

Served(stored, served) ==
  IF served = "noKey"
    THEN [stored EXCEPT !.encryptedPrivateKey = <<>>, !.salt = <<>>, !.iv = <<>>]
  ELSE IF served = "otherKey"
    THEN LET other == CHOOSE password \in TypedPasswords : password # stored.password
             vault == RegisterOutcomes[stored.email, other].val.body IN
         [stored EXCEPT !.encryptedPrivateKey = vault.encryptedPrivateKey,
                        !.salt = vault.salt, !.iv = vault.iv]
  ELSE stored

\* the responses of POST /auth/login
ServedBodies == {Served(stored, served) : stored \in RegisterBodies, served \in ServedAs}

\* LoginOutcome at every response and password, computed once
LoginOutcomes ==
  [data \in ServedBodies, password \in TypedPasswords |->
     LoginOutcome(data, password)]

\* "Credenciais invalidas"
InvalidCredentials == "Credenciais invalidas"

\* AuthProvider.login up to its last await: what it throws, or what it is
\* about to write; the server answers 200 to the password of the account
LoginResult(email, password, served) ==
  IF directory[email] = None \/ directory[email].password # password
    THEN Err(InvalidCredentials)
  ELSE LoginOutcomes[Served(directory[email], served), password]

LoginEffect_Mutant(result) ==
  IF result.ok
    THEN /\ user' = result.val.user
         /\ privateKey' = result.val.privateKey
         /\ publicKey' = result.val.publicKey
         /\ publicKeyRaw' = result.val.publicKeyRaw
         /\ localStorage' = result.val.localStorage
  ELSE /\ user' = None /\ privateKey' = None
       /\ publicKey' = None /\ publicKeyRaw' = None
       /\ localStorage' = EmptyStorage

\* the writes of AuthProvider.login: the four setters and the two
\* localStorage items once every step has succeeded, nothing when a step threw
LoginEffect(result) ==
  IF result.ok
    THEN /\ user' = result.val.user
         /\ privateKey' = result.val.privateKey
         /\ publicKey' = result.val.publicKey
         /\ publicKeyRaw' = result.val.publicKeyRaw
         /\ localStorage' = result.val.localStorage
  ELSE UNCHANGED <<authVars, localStorage>>

\* AuthProvider.login against a server that returns the record as registered
Login(email, password) ==
  /\ LoginEffect(LoginResult(email, password, "stored"))
  /\ UNCHANGED <<labVars, pageVars, groupVars, chatVars, directory, emitted>>

\* AuthProvider.login against any answer of the server, with what the call
\* gave its caller
LoginCall(email, password, served) ==
  /\ LoginEffect(LoginResult(email, password, served))
  /\ loginCall' = [email |-> email,
                   result |-> IF LoginResult(email, password, served).ok
                                THEN [ok |-> TRUE]
                              ELSE LoginResult(email, password, served)]
  /\ UNCHANGED <<labVars, serviceVars, componentVars, groupVars, chatVars, directory,
                 emitted>>

\* AuthProvider.logout
Logout ==
  /\ user' = None
  /\ privateKey' = None
  /\ publicKey' = None
  /\ publicKeyRaw' = None
  /\ localStorage' = EmptyStorage
  /\ UNCHANGED <<labVars, pageVars, groupVars, chatVars, directory, emitted>>

\* what the effect of AuthProvider recovers from the two items of localStorage
RestoredSession(storage) ==
  Bind(JsonParseUser(storage.user.text), LAMBDA savedUser :
  Bind(JsonParseJwk(storage.privateKeyJWK.text), LAMBDA privateKeyJWK :
  Bind(ImportJwk(privateKeyJWK), LAMBDA privKey :
  Bind(base64ToArrayBuffer(savedUser.publicKey), LAMBDA pubKeyRaw :
  Bind(importPublicKey(pubKeyRaw), LAMBDA pubKey :
    Ok([user |-> savedUser, privateKey |-> privKey,
        publicKey |-> pubKey, publicKeyRaw |-> [bytes |-> pubKeyRaw]]))))))

\* what register and login leave in localStorage
SessionStorages ==
  {RegisterOutcomes[email, password].val.localStorage :
     email \in Users, password \in TypedPasswords}
    \cup {LoginOutcomes[data, data.password].val.localStorage : data \in RegisterBodies}

\* RestoredSession at every content of localStorage, computed once
RestoredSessions == [storage \in SessionStorages |-> RestoredSession(storage)]

\* the page is loaded again: every component starts from its initial state,
\* the socket of the page that was left is gone, and the effect of
\* AuthProvider runs
Restore ==
  /\ socket' = None
  /\ socketUser' = None
  /\ selectedChat' = None
  /\ messages' = <<>>
  /\ IF localStorage.user = None \/ localStorage.privateKeyJWK = None
       THEN /\ user' = None /\ privateKey' = None
            /\ publicKey' = None /\ publicKeyRaw' = None
            /\ UNCHANGED localStorage
     ELSE LET session == RestoredSessions[localStorage] IN
       IF session.ok
         THEN /\ user' = session.val.user
              /\ privateKey' = session.val.privateKey
              /\ publicKey' = session.val.publicKey
              /\ publicKeyRaw' = session.val.publicKeyRaw
              /\ UNCHANGED localStorage
       ELSE /\ user' = None /\ privateKey' = None
            /\ publicKey' = None /\ publicKeyRaw' = None
            /\ localStorage' = EmptyStorage
  /\ UNCHANGED <<labVars, pageVars, groupVars, directory, emitted>>

\* the initialisation effect of Chat: socketService.connect(user.id), which
\* keeps a socket that is connected, and setSocket
ChatInit ==
  /\ user # None
  /\ socketUser' = IF socketUser = None THEN [id |-> user.id] ELSE socketUser
  /\ socket' = [connected |-> TRUE]
  /\ UNCHANGED <<labVars, pageVars, groupVars, authVars, localStorage, selectedChat, messages,
                 directory, emitted>>

\* sendMessagePayload at every argument Chat.sendMessage passes, computed once
SentPayloads ==
  [messageInput \in TypedMessages, senderId \in Users, receiverId \in Users,
   receiverPublicKeyB64 \in {data.publicKey : data \in RegisterBodies},
   myPublicKeyRaw \in {RegisterOutcomes[email, password].val.publicKeyRaw.bytes :
                         email \in Users, password \in TypedPasswords},
   rnd \in SendDraws |->
     sendMessagePayload(messageInput, senderId, receiverId, receiverPublicKeyB64,
                        myPublicKeyRaw, rnd)]

\* the "message:send" events
Events == {SentPayloads[args].val : args \in DOMAIN SentPayloads}

\* the private keys of the registered users
PrivateKeys ==
  {RegisterOutcomes[email, password].val.privateKey :
     email \in Users, password \in TypedPasswords}

\* the id the server gives the i-th message it stores, and the id
\* Date.now().toString() gives an entry added at instant k
ServerId(i) == [by |-> "server", n |-> i]

ClockId(k) == [by |-> "clock", n |-> k]

\* a "message:send" event as the server stores it and hands it out
Stamped(msg, id) ==
  [id |-> id, senderId |-> msg.senderId, receiverId |-> msg.receiverId,
   encryptedData |-> msg.encryptedData, nonce |-> msg.nonce,
   senderEphemPk |-> msg.senderEphemPk,
   senderEncryptedData |-> msg.senderEncryptedData,
   senderNonce |-> msg.senderNonce,
   senderEphemPkForSelf |-> msg.senderEphemPkForSelf]

\* an entry of the list messages
ListEntry(id, shown) ==
  [id |-> id, senderId |-> shown.senderId, text |-> shown.text,
   decrypted |-> shown.decrypted]

LoadedMessage_Mutant(msg, me, myPrivateKey) ==
  Either(decryptWith(myPrivateKey, msg.senderEphemPk, msg.encryptedData, msg.nonce),
         LAMBDA decryptedText :
           [senderId |-> msg.senderId, text |-> decryptedText, decrypted |-> TRUE],
         LAMBDA error :
           [senderId |-> msg.senderId, text |-> msg.encryptedData,
            decrypted |-> TRUE])

\* one turn of the loop of Chat.loadConversation, for the user me holding
\* myPrivateKey
LoadedMessage(msg, me, myPrivateKey) ==
  Either(IF msg.senderId = me
           THEN IF Len(msg.senderEncryptedData) = 0 \/ Len(msg.senderNonce) = 0
                     \/ Len(msg.senderEphemPkForSelf) = 0
                  THEN Err("Mensagem antiga sem criptografia para remetente")
                ELSE decryptWith(myPrivateKey, msg.senderEphemPkForSelf,
                                 msg.senderEncryptedData, msg.senderNonce)
         ELSE decryptWith(myPrivateKey, msg.senderEphemPk, msg.encryptedData,
                          msg.nonce),
         LAMBDA decryptedText :
           [senderId |-> msg.senderId, text |-> decryptedText, decrypted |-> TRUE],
         LAMBDA error :
           [senderId |-> msg.senderId, text |-> UndecryptableText,
            decrypted |-> FALSE])

\* the loop of Chat.loadConversation over the messages the server returned:
\* the list handed to setMessages
decryptedMessages(data, me, myPrivateKey) ==
  [i \in 1..Len(data) |->
     ListEntry(data[i].id, LoadedMessage(data[i], me, myPrivateKey))]

\* Chat.decryptAndAddMessage, the handler of "message:receive": the list
\* setMessages leaves, prev being the list before. The entry of a decrypted
\* message is appended unless prev has an entry of its id; the placeholder
\* of a message that was not decrypted is appended in every case.
decryptAndAddMessage(prev, encryptedMessage, myPrivateKey) ==
  Either(IF myPrivateKey = None THEN Err("Chave privada nao disponivel")
         ELSE decryptIncoming(encryptedMessage, myPrivateKey),
         LAMBDA decryptedText :
           IF \E k \in 1..Len(prev) : prev[k].id = encryptedMessage.id THEN prev
           ELSE Append(prev, [id |-> encryptedMessage.id,
                              senderId |-> encryptedMessage.senderId,
                              text |-> decryptedText, decrypted |-> TRUE]),
         LAMBDA error :
           Append(prev, [id |-> encryptedMessage.id,
                         senderId |-> encryptedMessage.senderId,
                         text |-> UndecryptableText, decrypted |-> FALSE]))

\* LoadedMessage at every event, user and private key, computed once
LoadedMessages ==
  [msg \in Events, me \in Users, myPrivateKey \in PrivateKeys |->
     LoadedMessage(msg, me, myPrivateKey)]

\* GET /chat/conversations/:me/:other, events being the "message:send"
\* events the server holds
ConversationIn(events, me, other) ==
  LET Between(msg) ==
        \/ (msg.senderId = me /\ msg.receiverId = other)
        \/ (msg.senderId = other /\ msg.receiverId = me) IN
  SelectSeq([i \in 1..Len(events) |-> Stamped(events[i], ServerId(i))], Between)

Conversation(me, other) == ConversationIn(emitted, me, other)

\* Chat.loadConversation; the chats listed are users the server knows
LoadConversation(chat) ==
  /\ user # None
  /\ directory[chat] # None
  /\ selectedChat' = [userId |-> chat]
  /\ messages' = decryptedMessages(Conversation(user.id, chat), user.id, privateKey)
  /\ UNCHANGED <<labVars, pageVars, groupVars, authVars, localStorage, socket, socketUser, directory,
                 emitted>>

\* Chat.sendMessage; without a session it throws before it emits
SendMessage(messageInput, rnd) ==
  /\ ~IsBlank(messageInput) /\ selectedChat # None /\ socket # None
  /\ user # None
  /\ Len(emitted) < MaxSends
  /\ LET receiver == directory[selectedChat.userId]
         payload == SentPayloads[messageInput, user.id, selectedChat.userId,
                                 receiver.publicKey, publicKeyRaw.bytes, rnd] IN
     IF ~payload.ok THEN UNCHANGED <<emitted, messages>>
     ELSE /\ emitted' = Append(emitted, payload.val)
          /\ messages' = Append(messages, [id |-> ClockId(Len(emitted) + 1),
                                           senderId |-> user.id,
                                           text |-> messageInput,
                                           decrypted |-> TRUE])
  /\ UNCHANGED <<labVars, pageVars, groupVars, authVars, localStorage, socket, socketUser, selectedChat,
                 directory>>

Next ==
  \/ \E email \in Users, password \in TypedPasswords : Register(email, password)
  \/ \E email \in Users, password \in TypedPasswords : Login(email, password)
  \/ Logout
  \/ Restore
  \/ ChatInit
  \/ \E chat \in Users : LoadConversation(chat)
  \/ \E messageInput \in TypedMessages, rnd \in SendDraws :
       SendMessage(messageInput, rnd)

Spec == Init /\ [][Next]_vars

\* AuthProvider alone, against every answer of the server
NextAuth ==
  \/ \E email \in Users, password \in TypedPasswords : Register(email, password)
  \/ \E email \in Users, password \in TypedPasswords, served \in ServedAs :
       LoginCall(email, password, served)
  \/ Logout
  \/ Restore

SpecAuth == Init /\ [][NextAuth]_vars

----------------------------------------------------------------------------
(* CryptoService harness: each action is one call of the service *)

InitCrypto ==
  /\ scenario \in Scenarios
  /\ sealed = None
  /\ opened = None
  /\ InitApp
  /\ InitGroups
  /\ InitPage

EncryptMessageCall ==
  /\ scenario.kind = "message" /\ sealed = None
  /\ sealed' = [kind |-> "message", tampered |-> FALSE,
                result |-> encryptMessage(scenario.message, scenario.key, scenario.nonce)]
  /\ UNCHANGED <<scenario, opened, appVars, groupVars, pageVars>>

\* one bit of the ciphertext is inverted in transit
TamperCiphertext ==
  /\ sealed.kind = "message" /\ sealed.result.ok /\ ~sealed.tampered /\ opened = None
  /\ LET bytes == base64ToArrayBuffer(sealed.result.val.encryptedData).val IN
     \E pos \in 1..Len(bytes), bit \in 0..7 :
       sealed' = [sealed EXCEPT
                    !.tampered = TRUE,
                    !.result.val.encryptedData =
                       arrayBufferToBase64(FlipBit(bytes, pos, bit)).val]
  /\ UNCHANGED <<scenario, opened, appVars, groupVars, pageVars>>

\* one bit of the nonce is inverted in transit
TamperNonce ==
  /\ sealed.kind = "message" /\ sealed.result.ok /\ ~sealed.tampered /\ opened = None
  /\ LET bytes == base64ToArrayBuffer(sealed.result.val.nonce).val IN
     \E pos \in 1..Len(bytes), bit \in 0..7 :
       sealed' = [sealed EXCEPT
                    !.tampered = TRUE,
                    !.result.val.nonce =
                       arrayBufferToBase64(FlipBit(bytes, pos, bit)).val]
  /\ UNCHANGED <<scenario, opened, appVars, groupVars, pageVars>>

DecryptMessageCall ==
  /\ sealed.kind = "message" /\ sealed.result.ok /\ opened = None
  /\ \E key \in SymmetricKeys :
       /\ sealed.tampered => key = scenario.key
       /\ opened' = [kind |-> "message", with |-> key,
                     result |-> decryptMessage(sealed.result.val.encryptedData,
                                               sealed.result.val.nonce, key)]
  /\ UNCHANGED <<scenario, sealed, appVars, groupVars, pageVars>>

SendDirect ==
  /\ scenario.kind = "direct" /\ sealed = None
  /\ scenario.sender # scenario.receiver
  /\ sealed' = [kind |-> "direct", tampered |-> FALSE,
                result |-> sendMessagePayload(scenario.message, scenario.sender,
                             scenario.receiver, PublicKeyB64Of(scenario.receiver),
                             PublicKeyRawOf(scenario.sender), scenario.rnd)]
  /\ UNCHANGED <<scenario, opened, appVars, groupVars, pageVars>>

ReceiveDirect ==
  /\ sealed.kind = "direct" /\ sealed.result.ok /\ opened = None
  /\ \E d \in IdentityScalars :
       opened' = [kind |-> "direct", with |-> d,
                  result |-> decryptIncoming(sealed.result.val, PrivateKeyOf(d))]
  /\ UNCHANGED <<scenario, sealed, appVars, groupVars, pageVars>>

\* the sender loads the conversation: the loop body of Chat.loadConversation
\* on the stored message, with the sender's identity private key
LoadOwnCopy ==
  /\ sealed.kind = "direct" /\ sealed.result.ok /\ opened = None
  /\ opened' = [kind |-> "self", with |-> scenario.sender,
                entry |-> LoadedMessage(sealed.result.val, scenario.sender,
                                        PrivateKeyOf(scenario.sender))]
  /\ UNCHANGED <<scenario, sealed, appVars, groupVars, pageVars>>

EncryptPrivateKeyCall ==
  /\ scenario.kind = "vault" /\ sealed = None
  /\ sealed' = [kind |-> "vault", tampered |-> FALSE,
                result |-> encryptPrivateKey(PrivateKeyOf(scenario.d), scenario.password,
                                             scenario.salt, scenario.iv)]
  /\ UNCHANGED <<scenario, opened, appVars, groupVars, pageVars>>

DecryptPrivateKeyCall ==
  /\ sealed.kind = "vault" /\ sealed.result.ok /\ opened = None
  /\ \E password \in Passwords :
       opened' = [kind |-> "vault", with |-> password,
                  result |-> decryptPrivateKey(sealed.result.val.encryptedPrivateKey,
                               sealed.result.val.salt, sealed.result.val.iv, password)]
  /\ UNCHANGED <<scenario, sealed, appVars, groupVars, pageVars>>

ComputeSharedSecretCall ==
  /\ scenario.kind = "ecdh" /\ opened = None
  /\ LET A == generateKeyPair(scenario.a).val
         B == generateKeyPair(scenario.b).val IN
     opened' = [kind |-> "ecdh",
                mine |-> computeSharedSecret(A.privateKey, B.publicKey),
                theirs |-> computeSharedSecret(B.privateKey, A.publicKey)]
  /\ UNCHANGED <<scenario, sealed, appVars, groupVars, pageVars>>

WrapGroupKey ==
  /\ scenario.kind = "group" /\ sealed = None
  /\ sealed' = [kind |-> "group", tampered |-> FALSE,
                result |-> encryptGroupKeyForMember(scenario.groupKey,
                             PublicKeyRawOf(scenario.member), scenario.d, scenario.nonce)]
  /\ UNCHANGED <<scenario, opened, appVars, groupVars, pageVars>>

UnwrapGroupKey ==
  /\ sealed.kind = "group" /\ sealed.result.ok /\ opened = None
  /\ \E d \in IdentityScalars :
       opened' = [kind |-> "group", with |-> d,
                  result |-> decryptGroupKey(sealed.result.val.encryptedGroupKey,
                               sealed.result.val.ephemeralPublicKey, PrivateKeyOf(d))]
  /\ UNCHANGED <<scenario, sealed, appVars, groupVars, pageVars>>

\* the ways a combined "ciphertext:nonce" string arrives malformed
Malformations ==
  {"noSeparator", "emptyCiphertext", "emptyNonce", "empty", "extraPart",
   "badCiphertext", "badNonce"}

\* "!", a string atob rejects
NotBase64 == <<33>>

\* "AAAA", base64 of three zero bytes: no point of the curve
NotAPoint == <<65, 65, 65, 65>>

\* the combined string with one defect
Malformed(combined, defect) ==
  LET parts == Split(combined, Colon) IN
  IF defect = "noSeparator" THEN parts[1] \o parts[2]
  ELSE IF defect = "emptyCiphertext" THEN <<Colon>> \o parts[2]
  ELSE IF defect = "emptyNonce" THEN parts[1] \o <<Colon>>
  ELSE IF defect = "empty" THEN <<>>
  ELSE IF defect = "extraPart" THEN combined \o <<Colon>> \o NotBase64
  ELSE IF defect = "badCiphertext" THEN NotBase64 \o <<Colon>> \o parts[2]
  ELSE parts[1] \o <<Colon>> \o NotBase64

\* the envelope of a member reaches decryptGroupKey with a malformed
\* combined string, beside the ephemeral public key it was made with or
\* beside bytes that are no public key
MalformEnvelope ==
  /\ sealed.kind = "group" /\ sealed.result.ok /\ opened = None
  /\ \E defect \in Malformations,
        ephemeral \in {sealed.result.val.ephemeralPublicKey, NotAPoint} :
       sealed' = [kind |-> "malformed", tampered |-> TRUE, defect |-> defect,
                  result |-> Ok([encryptedGroupKey |->
                                   Malformed(sealed.result.val.encryptedGroupKey,
                                             defect),
                                 ephemeralPublicKey |-> ephemeral])]
  /\ UNCHANGED <<scenario, opened, appVars, groupVars, pageVars>>

UnwrapMalformed ==
  /\ sealed.kind = "malformed" /\ opened = None
  /\ opened' = [kind |-> "malformed", with |-> scenario.member,
                result |-> decryptGroupKey(sealed.result.val.encryptedGroupKey,
                             sealed.result.val.ephemeralPublicKey,
                             PrivateKeyOf(scenario.member))]
  /\ UNCHANGED <<scenario, sealed, appVars, groupVars, pageVars>>

\* what a base64 field holds when it is not base64: "!" or nothing
NotBase64Values == {NotBase64, <<>>}

\* one base64 field of an encrypted message, of an encrypted private key or
\* of a group key envelope reaches the decrypting operation malformed
MalformBase64 ==
  /\ sealed.kind \in {"message", "vault", "group"}
  /\ sealed.result.ok /\ ~sealed.tampered /\ opened = None
  /\ \E field \in DOMAIN sealed.result.val, junk \in NotBase64Values :
       sealed' = [kind |-> "badBase64", of |-> sealed.kind, tampered |-> TRUE,
                  field |-> field,
                  result |-> Ok([sealed.result.val EXCEPT ![field] = junk])]
  /\ UNCHANGED <<scenario, opened, appVars, groupVars, pageVars>>

\* decryptMessage, decryptPrivateKey or decryptGroupKey on the malformed
\* input, with the key, password or private key that fits the intact input
DecryptMalformed ==
  /\ sealed.kind = "badBase64" /\ opened = None
  /\ opened' = [kind |-> "badBase64", of |-> sealed.of,
                result |->
                  IF sealed.of = "message"
                  THEN decryptMessage(sealed.result.val.encryptedData,
                                      sealed.result.val.nonce, scenario.key)
                  ELSE IF sealed.of = "vault"
                  THEN decryptPrivateKey(sealed.result.val.encryptedPrivateKey,
                                         sealed.result.val.salt, sealed.result.val.iv,
                                         scenario.password)
                  ELSE decryptGroupKey(sealed.result.val.encryptedGroupKey,
                                       sealed.result.val.ephemeralPublicKey,
                                       PrivateKeyOf(scenario.member))]
  /\ UNCHANGED <<scenario, sealed, appVars, groupVars, pageVars>>

\* three zero bytes: no point of the curve
NotAPointRaw == <<0, 0, 0>>

\* the internal steps of encryptGroupKeyForMember that can be made to fail
WrapFaults == {"generateKeyPair", "importPublicKey", "arrayBufferToBase64"}

\* encryptGroupKeyForMember where the steps named in faults fail: the
\* provider rejects key generation, the member's public key is no curve
\* point, the group key buffer is empty
WrapFaulty ==
  /\ scenario.kind = "group" /\ sealed = None
  /\ \E faults \in SUBSET WrapFaults :
       sealed' = [kind |-> "faulty", tampered |-> TRUE, faults |-> faults,
                  result |-> encryptGroupKeyForMember(
                    IF "arrayBufferToBase64" \in faults THEN <<>>
                    ELSE scenario.groupKey,
                    IF "importPublicKey" \in faults THEN NotAPointRaw
                    ELSE PublicKeyRawOf(scenario.member),
                    IF "generateKeyPair" \in faults THEN NoDraw ELSE scenario.d,
                    scenario.nonce)]
  /\ UNCHANGED <<scenario, opened, appVars, groupVars, pageVars>>

\* the internal steps of decryptGroupKey that can be made to fail
UnwrapFaults == {"importPublicKey", "computeSharedSecret", "base64ToArrayBuffer"}

\* decryptGroupKey where the steps named in faults fail: the ephemeral
\* public key is no curve point, the key handed in as private key is a
\* public key, the nonce half is not base64
UnwrapFaulty ==
  /\ sealed.kind = "group" /\ sealed.result.ok /\ opened = None
  /\ \E faults \in SUBSET UnwrapFaults :
       opened' = [kind |-> "faulty", faults |-> faults,
                  result |-> decryptGroupKey(
                    IF "base64ToArrayBuffer" \in faults
                    THEN Malformed(sealed.result.val.encryptedGroupKey, "badNonce")
                    ELSE sealed.result.val.encryptedGroupKey,
                    IF "importPublicKey" \in faults THEN NotAPoint
                    ELSE sealed.result.val.ephemeralPublicKey,
                    IF "computeSharedSecret" \in faults
                    THEN PublicKeyOf(ModExp(GroupG, scenario.member))
                    ELSE PrivateKeyOf(scenario.member))]
  /\ UNCHANGED <<scenario, sealed, appVars, groupVars, pageVars>>

\* the number of messages of a stored conversation
MaxHistory == 2

\* how a stored message reaches loadConversation: as it was sent, with one
\* bit of both ciphertexts inverted, or without the copy for its sender (a
\* message stored before that copy existed)
StoredAs == {"intact", "corrupt", "legacy"}

FlipFirstBit(base64) ==
  arrayBufferToBase64(FlipBit(base64ToArrayBuffer(base64).val, 1, 0)).val

Stored(msg, as) ==
  IF as = "corrupt"
    THEN [msg EXCEPT !.encryptedData = FlipFirstBit(msg.encryptedData),
                     !.senderEncryptedData = FlipFirstBit(msg.senderEncryptedData)]
  ELSE IF as = "legacy"
    THEN [msg EXCEPT !.senderEncryptedData = <<>>, !.senderNonce = <<>>,
                     !.senderEphemPkForSelf = <<>>]
  ELSE msg

\* Chat.loadConversation by the sender or the receiver of the message, on a
\* conversation the server returns; the conversations followed are those of
\* the typed messages
LoadHistory ==
  /\ sealed.kind = "direct" /\ sealed.result.ok /\ opened = None
  /\ scenario.message \in TypedMessages
  /\ \E me \in {scenario.sender, scenario.receiver},
        n \in 1..MaxHistory :
       \E stored \in [1..n -> StoredAs] :
         opened' = [kind |-> "history", with |-> me, stored |-> stored,
                    list |-> decryptedMessages(
                               [i \in 1..n |->
                                  Stored(Stamped(sealed.result.val, ServerId(i)),
                                         stored[i])],
                               me, PrivateKeyOf(me))]
  /\ UNCHANGED <<scenario, sealed, appVars, groupVars, pageVars>>

\* the number of "message:receive" events of a behaviour
MaxDeliveries == 2

\* "message:receive": the server hands the stored message to its receiver,
\* as it was sent or with one bit of the ciphertext inverted, any number of
\* times; the listener of Chat calls decryptAndAddMessage when the message
\* is addressed to the user
ReceiveMessage ==
  /\ sealed.kind = "direct" /\ sealed.result.ok
  /\ opened = None \/ (opened.kind = "inbox" /\ opened.deliveries < MaxDeliveries)
  /\ \E as \in {"intact", "corrupt"} :
       LET data == Stored(Stamped(sealed.result.val, ServerId(1)), as)
           prev == IF opened = None THEN <<>> ELSE opened.list IN
       opened' = [kind |-> "inbox", with |-> scenario.receiver,
                  deliveries |-> IF opened = None THEN 1 ELSE opened.deliveries + 1,
                  list |-> IF data.receiverId = scenario.receiver
                             THEN decryptAndAddMessage(prev, data,
                                    PrivateKeyOf(scenario.receiver))
                             ELSE prev]
  /\ UNCHANGED <<scenario, sealed, appVars, groupVars, pageVars>>

NextCrypto ==
  \/ EncryptMessageCall
  \/ TamperCiphertext
  \/ TamperNonce
  \/ DecryptMessageCall
  \/ SendDirect
  \/ ReceiveDirect
  \/ LoadOwnCopy
  \/ EncryptPrivateKeyCall
  \/ DecryptPrivateKeyCall
  \/ ComputeSharedSecretCall
  \/ WrapGroupKey
  \/ UnwrapGroupKey
  \/ MalformEnvelope
  \/ UnwrapMalformed
  \/ MalformBase64
  \/ DecryptMalformed
  \/ WrapFaulty
  \/ UnwrapFaulty
  \/ LoadHistory
  \/ ReceiveMessage

SpecCrypto == InitCrypto /\ [][NextCrypto]_vars

----------------------------------------------------------------------------
(* Groups: CreateGroup.tsx and GroupChat (GroupChat.tsx), with the direct
   messages of Chat, in one world of three registered users, each in a
   browser of their own. The random source is taken to return a value it
   never returned before: ephemeral scalars, nonces and group keys come from
   streams read in order, one position per call of crypto.subtle.generateKey
   or crypto.getRandomValues. *)

\* the order in which users are listed
MemberOrder == <<"alice", "bob", "carol">>

\* the identity scalar generateKey drew when the user registered
IdentityOf(u) == IF u = "alice" THEN 3 ELSE IF u = "bob" THEN 7 ELSE 5

\* the scalars generateKey returns for ephemeral key pairs, in order
EphemeralStream == <<2, 4, 6, 8, 9, 10, 1>>

EphemeralAt(k) == EphemeralStream[k]

\* the k-th nonce getRandomValues returns
NonceAt(k) == [i \in 1..NonceBytes |-> (16 * k + i) % 256]

\* the key material of the n-th generateGroupKey
GroupKeyAt(n) == [i \in 1..AESKeyBytes |-> (31 * n + i) % 256]

\* the calls of generateKeyPair and the group messages sent in one behaviour
MaxKeyDraws == 3

MaxGroupSends == 2

\* the positions of the streams a behaviour can reach
KeyDraws == 1..Len(EphemeralStream)

NonceDraws == 1..(Len(EphemeralStream) + MaxGroupSends)

\* the group keys generateGroupKey can return
GroupKeyRaws == {GroupKeyAt(1), GroupKeyAt(2)}

\* the accounts of the server: the three users, and one whose registration
\* stored a publicKey that is not a point of the curve
Accounts == Members \cup {"dave"}

\* the e-mails typed in the form of CreateGroup: those of the accounts, and
\* one that GET /auth/user/email answers with an error
TypedEmails == Accounts \cup {"erin"}

\* memberEmails after split, trim and filter: the lists of at most as many
\* e-mails as the creator has other users to invite
TypedMemberLists ==
  UNION {[1..n -> TypedEmails] : n \in 0..(Cardinality(Members) - 1)}

\* publicKey of the users as the server returns it
MemberPublicKey ==
  [u \in Accounts |-> IF u \in Members THEN PublicKeyB64Of(IdentityOf(u))
                                       ELSE NotAPoint]

\* step 5 of handleCreateGroup and step 2 of handleAddMember for one member:
\* the member's public key is decoded and encryptGroupKeyForMember draws the
\* k-th key pair and the n-th nonce
wrapForMember(groupKeyRaw, member, k, n) ==
  Bind(base64ToArrayBuffer(MemberPublicKey[member]), LAMBDA memberPublicKeyRaw :
    encryptGroupKeyForMember(groupKeyRaw, memberPublicKeyRaw, EphemeralAt(k),
                             NonceAt(n)))

\* wrapForMember at every key, member and draw, computed once
WrappedKeys ==
  [groupKeyRaw \in GroupKeyRaws, member \in Accounts, k \in KeyDraws,
   n \in NonceDraws |-> wrapForMember(groupKeyRaw, member, k, n)]

\* myEncryptedGroupKey and myEphemeralPublicKey as the server can hold them
Envelopes ==
  {WrappedKeys[args].val : args \in {a \in DOMAIN WrappedKeys : WrappedKeys[a].ok}}

\* loadGroupKeyAndMessages, step 1: decryptGroupKey, importGroupKey, and the
\* base64 text saved in localStorage
loadGroupKey(mine, u) ==
  Bind(decryptGroupKey(mine.encryptedGroupKey, mine.ephemeralPublicKey,
                       PrivateKeyOf(IdentityOf(u))), LAMBDA groupKeyRaw :
  Bind(importGroupKey(groupKeyRaw), LAMBDA gKey :
  Bind(arrayBufferToBase64(groupKeyRaw), LAMBDA groupKeyB64 :
    Ok([gKey |-> gKey, groupKeyB64 |-> groupKeyB64, groupKeyRaw |-> groupKeyRaw]))))

\* loadGroupKey at every envelope and user, computed once
LoadedGroupKeys ==
  [mine \in Envelopes, u \in Members |-> loadGroupKey(mine, u)]

\* the messages typed in a group or a chat: "h"
GroupTexts == {<<104>>}

\* GroupChat.sendMessage, the encryption: encryptGroupMessage draws the n-th
\* nonce
GroupCiphertexts ==
  [messageInput \in GroupTexts, groupKeyRaw \in GroupKeyRaws, n \in NonceDraws |->
     encryptGroupMessage(messageInput, AesKeyOf(groupKeyRaw), NonceAt(n))]

\* Chat.sendMessage from u to v, which draws the key pairs k and k + 1 and
\* the nonces n and n + 1
DirectPayloads ==
  [messageInput \in GroupTexts, u \in Members, v \in Members,
   k \in 1..(Len(EphemeralStream) - 1), n \in NonceDraws |->
     sendMessagePayload(messageInput, u, v, MemberPublicKey[v],
       base64ToArrayBuffer(MemberPublicKey[u]).val,
       [dReceiver |-> EphemeralAt(k), nonceReceiver |-> NonceAt(n),
        dSelf |-> EphemeralAt(k + 1), nonceSelf |-> NonceAt(n + 1)])]

\* the users of a set in the order they are listed
RECURSIVE InOrder(_, _)
InOrder(users, from) ==
  IF from > Len(MemberOrder) THEN <<>>
  ELSE (IF MemberOrder[from] \in users THEN <<MemberOrder[from]>> ELSE <<>>)
         \o InOrder(users, from + 1)

CreateGroupStart_Mutant(creator, emails) ==
  /\ creating = None
  /\ generated = <<>>
  /\ rng.keys + 1 + Len(emails) <= MaxKeyDraws
  /\ LET found == \A i \in 1..Len(emails) : emails[i] \in Accounts IN
       /\ creating' = IF found
                        THEN [creator |-> creator,
                              allMembers |-> <<creator>> \o emails,
                              stage |-> "wrapping",
                              groupKeyRaw |-> [bytes |-> GroupKeyAt(2)],
                              memberKeys |-> <<>>]
                        ELSE None
       /\ lastCreate' = [result |-> IF found THEN "running" ELSE "member not found"]
  /\ UNCHANGED <<labVars, pageVars, appVars, posted, rng, groups, groupMessages,
                 directMessages, storedGroupKeys, chatGroupKey, generated, wrapCalls>>

\* handleCreateGroup, steps 1 to 3: the members are looked up, which throws
\* when an e-mail is of no account, and allMembers is built, the creator first
\* and then one entry per e-mail typed. One group is followed through its
\* life: the form is submitted until a group key was generated.
CreateGroupStart(creator, emails) ==
  /\ creating = None
  /\ generated = <<>>
  /\ rng.keys + 1 + Len(emails) <= MaxKeyDraws
  /\ LET found == \A i \in 1..Len(emails) : emails[i] \in Accounts IN
       /\ creating' = IF found
                        THEN [creator |-> creator,
                              allMembers |-> <<creator>> \o emails,
                              stage |-> "members",
                              groupKeyRaw |-> None,
                              memberKeys |-> <<>>]
                        ELSE None
       /\ lastCreate' = [result |-> IF found THEN "running" ELSE "member not found"]
  /\ UNCHANGED <<labVars, pageVars, appVars, posted, rng, groups, groupMessages,
                 directMessages, storedGroupKeys, chatGroupKey, generated, wrapCalls>>

\* handleCreateGroup, step 4: generateGroupKey and exportGroupKey
CreateGroupKey ==
  /\ creating # None /\ creating.stage = "members"
  /\ \E exported \in {Bind(generateGroupKey(GroupKeyAt(Len(generated) + 1)),
                             LAMBDA key : exportGroupKey(key))} :
       /\ creating' = [creating EXCEPT !.stage = "wrapping",
                                       !.groupKeyRaw = [bytes |-> exported.val]]
       /\ generated' = Append(generated, exported.val)
  /\ UNCHANGED <<labVars, pageVars, appVars, createVars, rng, groups, groupMessages, directMessages,
                 storedGroupKeys, chatGroupKey, wrapCalls>>

\* the entry of a member in the list of a group's members; addedBy is the
\* member who added the user, None for a member since the creation
MemberKey(userId, envelope, addedBy) ==
  [userId |-> userId, encryptedGroupKey |-> envelope.encryptedGroupKey,
   ephemeralPublicKey |-> envelope.ephemeralPublicKey, addedBy |-> addedBy]

\* the key pairs a handleCreateGroup under way is still to draw
PendingWraps ==
  IF creating = None THEN 0 ELSE Len(creating.allMembers) - Len(creating.memberKeys)

\* the member whose key handleCreateGroup wraps next
NextMember(c) == c.allMembers[Len(c.memberKeys) + 1]

\* handleCreateGroup, step 5, for one member: encryptGroupKeyForMember with
\* the exported group key; a failure ends handleCreateGroup
CreateGroupWrap ==
  /\ creating # None /\ creating.stage = "wrapping"
  /\ Len(creating.memberKeys) < Len(creating.allMembers)
  /\ \E wrapped \in {WrappedKeys[creating.groupKeyRaw.bytes, NextMember(creating),
                                  rng.keys + 1, rng.nonces + 1]} :
       /\ creating' =
            IF wrapped.ok
              THEN [creating EXCEPT !.memberKeys =
                      Append(@, MemberKey(NextMember(creating), wrapped.val, None))]
              ELSE None
       /\ lastCreate' = IF wrapped.ok THEN lastCreate
                         ELSE [lastCreate EXCEPT !.result = "wrapping failed"]
  /\ wrapCalls' = Append(wrapCalls, creating.groupKeyRaw.bytes)
  /\ rng' = [keys |-> rng.keys + 1, nonces |-> rng.nonces + 1]
  /\ UNCHANGED <<labVars, pageVars, appVars, posted, groups, groupMessages, directMessages,
                 storedGroupKeys, chatGroupKey, generated>>

\* JSON of localStorage "groupKeys" with groupKeys[id] = groupKeyB64
WithGroupKey(stored, id, groupKeyB64) ==
  [g \in (DOMAIN stored) \cup {id} |-> IF g = id THEN groupKeyB64 ELSE stored[g]]

\* handleCreateGroup, steps 6 and 7: POST /chat/group with the envelopes as
\* members; an answer that is not ok throws, and after an ok answer the group
\* key is saved in localStorage under the id the server returned
CreateGroupPost(accepted) ==
  /\ creating # None /\ creating.stage = "wrapping"
  /\ Len(creating.memberKeys) = Len(creating.allMembers)
  /\ posted' = Append(posted, [creatorId |-> creating.creator,
                               members |-> creating.memberKeys])
  /\ IF accepted
       THEN /\ groups' = Append(groups, [creatorId |-> creating.creator,
                                         members |-> creating.memberKeys])
            /\ storedGroupKeys' =
                 [storedGroupKeys EXCEPT ![creating.creator] =
                    WithGroupKey(@, Len(groups) + 1,
                                 arrayBufferToBase64(creating.groupKeyRaw.bytes).val)]
       ELSE UNCHANGED <<groups, storedGroupKeys>>
  /\ lastCreate' = [lastCreate EXCEPT !.result =
                      IF accepted THEN "created" ELSE "rejected"]
  /\ creating' = None
  /\ UNCHANGED <<labVars, pageVars, appVars, rng, groupMessages, directMessages,
                 chatGroupKey, generated, wrapCalls>>

\* the ids of the members of a group, and the envelope the server hands a
\* member as myEncryptedGroupKey and myEphemeralPublicKey
MemberIds(group) == {group.members[i].userId : i \in 1..Len(group.members)}

EnvelopeOf(group, u) ==
  LET mine == group.members[CHOOSE i \in 1..Len(group.members) :
                              group.members[i].userId = u] IN
  [encryptedGroupKey |-> mine.encryptedGroupKey,
   ephemeralPublicKey |-> mine.ephemeralPublicKey]

\* GroupChat.loadGroupKeyAndMessages, step 1, of a member who opens the
\* group: decryptGroupKey and importGroupKey; then the key is kept as
\* groupKey and its base64 in localStorage. A failure leaves both as they were.
OpenGroup(u, id) ==
  /\ id \in 1..Len(groups) /\ u \in MemberIds(groups[id])
  /\ \E loaded \in {LoadedGroupKeys[EnvelopeOf(groups[id], u), u]} :
     IF loaded.ok
       THEN /\ chatGroupKey' = [chatGroupKey EXCEPT ![u] =
                                  WithGroupKey(@, id, loaded.val.gKey)]
            /\ storedGroupKeys' = [storedGroupKeys EXCEPT ![u] =
                                     WithGroupKey(@, id, loaded.val.groupKeyB64)]
       ELSE UNCHANGED <<chatGroupKey, storedGroupKeys>>
  /\ UNCHANGED <<labVars, pageVars, appVars, createVars, rng, creating, groups, groupMessages,
                 directMessages, generated, wrapCalls>>

storedGroupKeyRaw_Mutant(stored, id) ==
  Bind(generateGroupKey(GroupKeyAt(2)), LAMBDA key : exportGroupKey(key))

\* handleAddMember, step 2, first statement: the group key read from
\* localStorage "groupKeys"; a group without an entry gives undefined
storedGroupKeyRaw(stored, id) ==
  base64ToArrayBuffer(IF id \in DOMAIN stored THEN stored[id] ELSE <<>>)

\* GroupChat.handleAddMember by a member u for the user newMember:
\* encryptGroupKeyForMember with the stored group key, then
\* POST /chat/group/member. A failure before the POST changes nothing.
AddMember(u, id, newMember) ==
  /\ id \in 1..Len(groups) /\ u \in MemberIds(groups[id])
  /\ newMember \notin MemberIds(groups[id])
  /\ rng.keys < MaxKeyDraws
  /\ \E groupKeyRaw \in {storedGroupKeyRaw(storedGroupKeys[u], id)} :
       IF ~groupKeyRaw.ok THEN UNCHANGED <<groups, rng, wrapCalls>>
       ELSE
         /\ wrapCalls' = Append(wrapCalls, groupKeyRaw.val)
         /\ rng' = [keys |-> rng.keys + 1, nonces |-> rng.nonces + 1]
         /\ \E wrapped \in {WrappedKeys[groupKeyRaw.val, newMember, rng.keys + 1,
                                         rng.nonces + 1]} :
              groups' =
                IF wrapped.ok
                  THEN [groups EXCEPT ![id].members =
                          Append(@, MemberKey(newMember, wrapped.val, [userId |-> u]))]
                  ELSE groups
  /\ UNCHANGED <<labVars, pageVars, appVars, createVars, creating, groupMessages, directMessages,
                 storedGroupKeys, chatGroupKey, generated>>

\* GroupChat.sendMessage: nothing without text or without groupKey;
\* encryptGroupMessage, then "group:message:send"
GroupSend(u, id, messageInput) ==
  /\ id \in 1..Len(groups) /\ u \in MemberIds(groups[id])
  /\ ~IsBlank(messageInput) /\ id \in DOMAIN chatGroupKey[u]
  /\ Len(groupMessages) < MaxGroupSends
  /\ \E encrypted \in {GroupCiphertexts[messageInput, chatGroupKey[u][id].k,
                                         rng.nonces + 1]} :
     groupMessages' =
       IF encrypted.ok
         THEN Append(groupMessages, [groupId |-> id, senderId |-> u,
                                     encryptedData |-> encrypted.val.encryptedData,
                                     nonce |-> encrypted.val.nonce])
         ELSE groupMessages
  /\ rng' = [rng EXCEPT !.nonces = @ + 1]
  /\ UNCHANGED <<labVars, pageVars, appVars, createVars, creating, groups, directMessages,
                 storedGroupKeys, chatGroupKey, generated, wrapCalls>>

\* Chat.sendMessage from u to v: two ephemeral key pairs and two nonces
DirectSend(u, v, messageInput) ==
  /\ u # v /\ ~IsBlank(messageInput)
  /\ rng.keys + 2 + PendingWraps <= MaxKeyDraws
  /\ \E payload \in {DirectPayloads[messageInput, u, v, rng.keys + 1,
                                    rng.nonces + 1]} :
     directMessages' = IF payload.ok THEN Append(directMessages, payload.val)
                       ELSE directMessages
  /\ rng' = [keys |-> rng.keys + 2, nonces |-> rng.nonces + 2]
  /\ UNCHANGED <<labVars, pageVars, appVars, createVars, creating, groups, groupMessages,
                 storedGroupKeys, chatGroupKey, generated, wrapCalls>>

NextGroups ==
  \/ \E creator \in Members, emails \in TypedMemberLists :
       CreateGroupStart(creator, emails)
  \/ CreateGroupKey
  \/ CreateGroupWrap
  \/ \E accepted \in BOOLEAN : CreateGroupPost(accepted)
  \/ \E u \in Members, id \in 1..Len(groups) : OpenGroup(u, id)
  \/ \E u \in Members, id \in 1..Len(groups), newMember \in Members :
       AddMember(u, id, newMember)
  \/ \E u \in Members, id \in 1..Len(groups), messageInput \in GroupTexts :
       GroupSend(u, id, messageInput)
  \/ \E u \in Members, v \in Members, messageInput \in GroupTexts :
       DirectSend(u, v, messageInput)

SpecGroups == Init /\ [][NextGroups]_vars

\* the first steps of every decryption: the AES key a user derives from an
\* ephemeral public key (base64ToArrayBuffer, importPublicKey,
\* computeSharedSecret, deriveAESKey)
aesKeyWith(ephemPkB64, u) ==
  Bind(base64ToArrayBuffer(ephemPkB64), LAMBDA ephemPkRaw :
  Bind(importPublicKey(ephemPkRaw), LAMBDA ephemPk :
  Bind(computeSharedSecret(PrivateKeyOf(IdentityOf(u)), ephemPk),
       LAMBDA sharedSecret : deriveAESKey(sharedSecret))))

\* aesKeyWith at every ephemeral public key and user, computed once
DerivedKeys ==
  [ephemPkB64 \in {PublicKeyB64Of(EphemeralAt(k)) : k \in KeyDraws},
   u \in Members |-> aesKeyWith(ephemPkB64, u)]

RECURSIVE FlattenSeq(_)
FlattenSeq(seqs) ==
  IF seqs = <<>> THEN <<>> ELSE Head(seqs) \o FlattenSeq(Tail(seqs))

\* every group key envelope made so far: those the server holds and those of
\* the handleCreateGroup in progress
MemberKeysMade ==
  FlattenSeq([id \in 1..Len(groups) |-> groups[id].members])
    \o (IF creating = None THEN <<>> ELSE creating.memberKeys)

\* the ephemeral public key of every envelope made so far
EphemeralKeysSent ==
  [i \in 1..Len(MemberKeysMade) |-> MemberKeysMade[i].ephemeralPublicKey]
    \o [i \in 1..Len(directMessages) |-> directMessages[i].senderEphemPk]
    \o [i \in 1..Len(directMessages) |-> directMessages[i].senderEphemPkForSelf]

\* the key and the nonce of every AES-GCM encryption made so far
Encryptions ==
  [i \in 1..Len(MemberKeysMade) |->
     [key |-> DerivedKeys[MemberKeysMade[i].ephemeralPublicKey,
                          MemberKeysMade[i].userId].val,
      nonce |-> Split(MemberKeysMade[i].encryptedGroupKey, Colon)[2]]]
    \o [i \in 1..Len(directMessages) |->
          [key |-> DerivedKeys[directMessages[i].senderEphemPk,
                               directMessages[i].receiverId].val,
           nonce |-> directMessages[i].nonce]]
    \o [i \in 1..Len(directMessages) |->
          [key |-> DerivedKeys[directMessages[i].senderEphemPkForSelf,
                               directMessages[i].senderId].val,
           nonce |-> directMessages[i].senderNonce]]
    \o [i \in 1..Len(groupMessages) |->
          [key |-> chatGroupKey[groupMessages[i].senderId][groupMessages[i].groupId],
           nonce |-> groupMessages[i].nonce]]


----------------------------------------------------------------------------
(* SocketService (socket.service.ts), the sockets io() gives it and the
   "register" handler of the server.  A socket of socket.io-client is
   "connecting" from its creation and after a connection lost to the
   transport (reconnection: true), "connected" between its "connect" and
   "disconnect" events, "disconnected" once the server has disconnected it,
   and "closed" after its disconnect() was called.  What is emitted on a
   socket that is not connected waits and is sent when it connects. *)

\* the number of sockets io() creates in a behaviour
MaxSockets == 2

\* the number of functions handed to onMessage in a behaviour
MaxHandlers == 3

\* the users whose id is handed to connect: one user stays signed in
ServiceUsers == {"alice"}

\* the reasons of a "disconnect" event the client did not ask for
DisconnectReasons == {"transport close", "io server disconnect"}

\* io("http://localhost:3000", ...): a socket with the four listeners of
\* connect, whose "connect" listener holds userId
NewSocket(userId) ==
  [state |-> "connecting", userId |-> userId, registered |-> {}, pending |-> {}]

\* the sockets that are open or opening
OpenSockets == {s \in 1..Len(sockets) : sockets[s].state \in {"connecting", "connected"}}

\* socket.emit("register", userId) on socket t: sent at once when t is
\* connected, kept for its connection otherwise
EmitRegister(socks, t, userId) ==
  IF socks[t].state = "connected"
    THEN [socks EXCEPT ![t].registered = @ \cup {userId}]
  ELSE [socks EXCEPT ![t].pending = @ \cup {userId}]

\* SocketService.connect
connect(userId) ==
  /\ IF serviceSocket # 0 /\ sockets[serviceSocket].state = "connected"
       THEN UNCHANGED <<serviceSocket, sockets>>
     ELSE /\ Len(sockets) < MaxSockets
          /\ sockets' = Append(sockets, NewSocket(userId))
          /\ serviceSocket' = Len(sockets) + 1
  /\ UNCHANGED <<labVars, appVars, groupVars, loginCall, componentVars, messageHandlers, handlersMade, live,
                 cleared, lastDispatch>>

\* the "connect" event of socket s and the listener connect gave it:
\* this.socket?.emit("register", userId)
OnConnect(s) ==
  /\ sockets[s].state = "connecting"
  /\ LET connected == [sockets EXCEPT ![s].state = "connected",
                                      ![s].registered = sockets[s].pending,
                                      ![s].pending = {}] IN
     sockets' = IF serviceSocket = 0 THEN connected
                ELSE EmitRegister(connected, serviceSocket, sockets[s].userId)
  /\ UNCHANGED <<labVars, appVars, groupVars, loginCall, componentVars, serviceSocket, messageHandlers,
                 handlersMade, live, cleared, lastDispatch>>

\* the "disconnect" event of socket s and the listener connect gave it:
\* the server forgets the socket; after "io server disconnect" the listener
\* calls this.socket?.connect()
OnDisconnect(s, reason) ==
  /\ sockets[s].state = "connected"
  /\ LET dropped == [sockets EXCEPT
                       ![s].state = IF reason = "io server disconnect"
                                      THEN "disconnected" ELSE "connecting",
                       ![s].registered = {}] IN
     sockets' = IF reason = "io server disconnect" /\ serviceSocket # 0
                     /\ dropped[serviceSocket].state = "disconnected"
                  THEN [dropped EXCEPT ![serviceSocket].state = "connecting"]
                ELSE dropped
  /\ UNCHANGED <<labVars, appVars, groupVars, loginCall, componentVars, serviceSocket, messageHandlers,
                 handlersMade, live, cleared, lastDispatch>>

\* SocketService.onMessage with a function made for the call, which returns
\* or throws when it is invoked; the function onMessage returns is
\* Unsubscribe of the new handler
onMessage(throws) ==
  /\ handlersMade < MaxHandlers
  /\ handlersMade' = handlersMade + 1
  /\ messageHandlers' = Append(messageHandlers,
                               [id |-> handlersMade + 1, throws |-> throws])
  /\ live' = live \cup {handlersMade + 1}
  /\ UNCHANGED <<labVars, appVars, groupVars, loginCall, componentVars, serviceSocket, sockets, cleared,
                 lastDispatch>>

\* the function onMessage returned for handler h:
\* this.messageHandlers.delete(handler)
Unsubscribe(h) ==
  /\ h \in 1..handlersMade
  /\ LET Other(handler) == handler.id # h IN
     messageHandlers' = SelectSeq(messageHandlers, Other)
  /\ live' = live \ {h}
  /\ UNCHANGED <<labVars, appVars, groupVars, loginCall, componentVars, serviceSocket, sockets, handlersMade,
                 cleared, lastDispatch>>

\* SocketService.disconnect
disconnect ==
  /\ IF serviceSocket # 0
       THEN /\ messageHandlers' = <<>>
            /\ cleared' = cleared \cup {messageHandlers[i].id : i \in 1..Len(messageHandlers)}
            /\ sockets' = [sockets EXCEPT ![serviceSocket].state = "closed",
                                          ![serviceSocket].registered = {},
                                          ![serviceSocket].pending = {}]
            /\ serviceSocket' = 0
     ELSE UNCHANGED <<messageHandlers, cleared, sockets, serviceSocket>>
  /\ UNCHANGED <<labVars, appVars, groupVars, loginCall, componentVars, handlersMade, live, lastDispatch>>

notifyHandlers_Mutant(handlers) ==
  LET Throwing == {i \in 1..Len(handlers) : handlers[i].throws}
      last == IF Throwing = {} THEN Len(handlers)
              ELSE CHOOSE i \in Throwing : \A j \in Throwing : i <= j IN
  [i \in 1..last |-> handlers[i].id]

\* this.messageHandlers.forEach of the "message:receive" listener: the
\* handlers invoked, in order; what a handler throws is caught and logged
notifyHandlers(handlers) ==
  [i \in 1..Len(handlers) |-> handlers[i].id]

\* the "message:receive" event of socket s and the listener connect gave it
OnMessageReceive(s) ==
  /\ sockets[s].state = "connected"
  /\ lastDispatch' = [registered |-> live, cleared |-> cleared,
                      calls |-> notifyHandlers(messageHandlers)]
  /\ UNCHANGED <<labVars, appVars, groupVars, loginCall, componentVars, serviceSocket, sockets,
                 messageHandlers, handlersMade, live, cleared>>

NextSocket ==
  \/ \E userId \in ServiceUsers : connect(userId)
  \/ \E s \in 1..Len(sockets) : OnConnect(s)
  \/ \E s \in 1..Len(sockets), reason \in DisconnectReasons : OnDisconnect(s, reason)
  \/ \E throws \in BOOLEAN : onMessage(throws)
  \/ \E h \in 1..MaxHandlers : Unsubscribe(h)
  \/ disconnect
  \/ \E s \in 1..Len(sockets) : OnMessageReceive(s)

SpecSocket == Init /\ [][NextSocket]_vars

----------------------------------------------------------------------------
(* The page of one browser, in the world of the three users: AuthProvider,
   CreateGroup and GroupChat as alice uses them; bob and carol open groups
   and send from browsers of their own. *)

\* the user of the page
PageUser == "alice"

SignedIn == user # None /\ user.id = PageUser

\* a "group:message:send" event as the server stores it and hands it out
StampedGroupMessage(msg, id) ==
  [id |-> id, groupId |-> msg.groupId, senderId |-> msg.senderId,
   encryptedData |-> msg.encryptedData, nonce |-> msg.nonce]

\* GET /chat/group/:id/messages
GroupHistory(id) ==
  LET InGroup(msg) == msg.groupId = id IN
  SelectSeq([i \in 1..Len(groupMessages) |->
               StampedGroupMessage(groupMessages[i], ServerId(i))], InGroup)

\* loadGroupKeyAndMessages, step 3: the list handed to setMessages
groupDecryptedMessages(data, gKey) ==
  [i \in 1..Len(data) |->
     Either(decryptGroupMessage(data[i].encryptedData, data[i].nonce, gKey),
            LAMBDA decryptedText :
              [id |-> data[i].id, senderId |-> data[i].senderId,
               text |-> decryptedText, decrypted |-> TRUE],
            LAMBDA error :
              [id |-> data[i].id, senderId |-> data[i].senderId,
               text |-> UndecryptableText, decrypted |-> FALSE])]

\* GroupChat.decryptAndAddMessage with the groupKey its closure holds: the
\* list setMessages leaves, prev being the list before
groupDecryptAndAddMessage(prev, encryptedMessage, groupKey) ==
  IF groupKey = None THEN prev
  ELSE Either(decryptGroupMessage(encryptedMessage.encryptedData,
                                  encryptedMessage.nonce, groupKey),
              LAMBDA decryptedText :
                IF \E k \in 1..Len(prev) : prev[k].id = encryptedMessage.id THEN prev
                ELSE Append(prev, [id |-> encryptedMessage.id,
                                   senderId |-> encryptedMessage.senderId,
                                   text |-> decryptedText, decrypted |-> TRUE]),
              LAMBDA error : prev)

\* GroupChat is mounted for a group of the user: useState gives the first
\* render groupKey = null, messages = [] and loading = true, and the effect
\* of that render starts loadGroupKeyAndMessages and hands onMessage a
\* listener that calls the decryptAndAddMessage of that render
GroupChatMount(id) ==
  /\ SignedIn /\ groupChat = None
  /\ id \in 1..Len(groups) /\ PageUser \in MemberIds(groups[id])
  /\ groupChat' = [groupId |-> id,
                   listenerGroupKey |-> IF id \in DOMAIN chatGroupKey[PageUser]
                                          THEN chatGroupKey[PageUser][id]
                                        ELSE None,
                   loading |-> TRUE,
                   messages |-> <<>>, late |-> {}]
  /\ UNCHANGED <<labVars, appVars, groupVars, serviceVars, loginCall, chatLoads>>

\* loadGroupKeyAndMessages, step 1
GroupChatLoadKey ==
  /\ groupChat # None /\ groupChat.loading
  /\ groupChat.groupId \notin DOMAIN chatGroupKey[PageUser]
  /\ OpenGroup(PageUser, groupChat.groupId)

\* loadGroupKeyAndMessages, steps 2 and 3 and the finally block
GroupChatLoadMessages ==
  /\ groupChat # None /\ groupChat.loading
  /\ groupChat.groupId \in DOMAIN chatGroupKey[PageUser]
  /\ groupChat' = [groupChat EXCEPT
                     !.messages = groupDecryptedMessages(
                                    GroupHistory(groupChat.groupId),
                                    chatGroupKey[PageUser][groupChat.groupId]),
                     !.loading = FALSE]
  /\ UNCHANGED <<labVars, appVars, groupVars, serviceVars, loginCall, chatLoads>>

\* a "message:receive" event with the i-th group message reaches the
\* listener of GroupChat; late keeps the events that arrived once
\* loadGroupKeyAndMessages had ended with the key unwrapped
GroupChatReceive(i) ==
  /\ groupChat # None /\ i \in 1..Len(groupMessages)
  /\ LET data == StampedGroupMessage(groupMessages[i], ServerId(i)) IN
     groupChat' =
       IF data.groupId = groupChat.groupId
         THEN [groupChat EXCEPT
                 !.messages = groupDecryptAndAddMessage(@, data,
                                                        groupChat.listenerGroupKey),
                 !.late = IF groupChat.loading THEN @ ELSE @ \cup {i}]
       ELSE groupChat
  /\ UNCHANGED <<labVars, appVars, groupVars, serviceVars, loginCall, chatLoads>>

\* onBack: GroupChat is unmounted and the cleanup of its effect unsubscribes
GroupChatBack ==
  /\ groupChat # None
  /\ groupChat' = None
  /\ chatGroupKey' = [chatGroupKey EXCEPT ![PageUser] = <<>>]
  /\ UNCHANGED <<labVars, appVars, serviceVars, loginCall, chatLoads, createVars, rng,
                 creating,
                 groups, groupMessages, directMessages, storedGroupKeys, generated,
                 wrapCalls>>

NextPage ==
  \/ \E password \in TypedPasswords : Register(PageUser, password)
  \/ \E password \in TypedPasswords : Login(PageUser, password)
  \/ Logout
  \/ \E others \in SUBSET (Members \ {PageUser}) :
       SignedIn /\ CreateGroupStart(PageUser, InOrder(others, 1))
  \/ CreateGroupKey
  \/ CreateGroupWrap
  \/ \E accepted \in BOOLEAN : CreateGroupPost(accepted)
  \/ \E id \in 1..Len(groups) : GroupChatMount(id)
  \/ GroupChatLoadKey
  \/ GroupChatLoadMessages
  \/ \E i \in 1..Len(groupMessages) : GroupChatReceive(i)
  \/ GroupChatBack
  \/ \E u \in Members \ {PageUser}, id \in 1..Len(groups) : OpenGroup(u, id)
  \/ \E u \in Members \ {PageUser}, id \in 1..Len(groups), messageInput \in GroupTexts :
       GroupSend(u, id, messageInput)

SpecPage == Init /\ [][NextPage]_vars

----------------------------------------------------------------------------
(* Chat (GroupChat.tsx) in the page of alice: loadConversation from its call
   to the arrival of its response, and the listener of "message:receive",
   while bob and carol send from browsers of their own. *)

\* the calls of loadConversation that wait for their response at one time
MaxLoads == 2

\* without the k-th element
RemoveAt(seq, k) == SubSeq(seq, 1, k - 1) \o SubSeq(seq, k + 1, Len(seq))

\* Chat.loadConversation up to its fetch
LoadConversationStart(chat) ==
  /\ SignedIn /\ chat # PageUser
  /\ Len(chatLoads.pending) < MaxLoads
  /\ selectedChat' = [userId |-> chat]
  /\ messages' = <<>>
  /\ chatLoads' = [pending |-> Append(chatLoads.pending, chat),
                   loadingMessages |-> TRUE]
  /\ UNCHANGED <<labVars, groupVars, serviceVars, loginCall, groupChat, authVars,
                 localStorage, socket, socketUser, directory, emitted>>

\* the response of the k-th waiting call arrives: the rest of
\* Chat.loadConversation, with the user and the private key of its closure
LoadConversationFinish(k) ==
  /\ SignedIn /\ k \in 1..Len(chatLoads.pending)
  /\ messages' = decryptedMessages(
                   ConversationIn(directMessages, user.id, chatLoads.pending[k]),
                   user.id, privateKey)
  /\ chatLoads' = [pending |-> RemoveAt(chatLoads.pending, k),
                   loadingMessages |-> FALSE]
  /\ UNCHANGED <<labVars, groupVars, serviceVars, loginCall, groupChat, authVars,
                 localStorage, socket, socketUser, selectedChat, directory, emitted>>

\* a "message:receive" event with the i-th direct message reaches the
\* listener the effect of Chat handed to onMessage
ChatReceive(i) ==
  /\ SignedIn /\ i \in 1..Len(directMessages)
  /\ LET data == Stamped(directMessages[i], ServerId(i)) IN
     messages' = IF data.receiverId = user.id
                   THEN decryptAndAddMessage(messages, data, privateKey)
                 ELSE messages
  /\ UNCHANGED <<labVars, groupVars, pageVars, authVars, localStorage, socket,
                 socketUser, selectedChat, directory, emitted>>

NextChat ==
  \/ \E password \in TypedPasswords : Register(PageUser, password)
  \/ \E chat \in Members : LoadConversationStart(chat)
  \/ \E k \in 1..MaxLoads : LoadConversationFinish(k)
  \/ \E i \in 1..Len(directMessages) : ChatReceive(i)
  \/ \E u \in Members, v \in Members, messageInput \in GroupTexts :
       PageUser \in {u, v} /\ DirectSend(u, v, messageInput)

SpecChat == Init /\ [][NextChat]_vars

----------------------------------------------------------------------------
(* Properties *)

\* C1: the server, which holds every registration body and every
\* "message:send" event it received, cannot derive the plaintext of a message:
\* no event is opened by a private key obtained from the registrations alone
C1_ServerCannotReadMessages ==
  \A i \in 1..Len(emitted) : \A u \in Users :
    directory[u] # None =>
      LET unlocked == LoginOutcomes[directory[u], directory[u].password] IN
      ~(unlocked.ok /\ LoadedMessages[emitted[i], u, unlocked.val.privateKey].decrypted)

\* C2: when A encrypts P under a fresh ephemeral key and B's identity public
\* key and transmits (encryptedData, nonce, ephemeral public key), B's
\* decryption with B's identity private key returns exactly P.
C2_ReceiverRecoversPlaintext ==
  (opened.kind = "direct" /\ opened.with = scenario.receiver)
    => (opened.result.ok /\ opened.result.val = scenario.message)

\* C3: decryptMessage applied with K to what encryptMessage(P, K) returned
\* returns exactly P, for every plaintext P and key K.
C3_DecryptInvertsEncrypt ==
  (opened.kind = "message" /\ ~sealed.tampered /\ opened.with = scenario.key)
    => (opened.result.ok /\ opened.result.val = scenario.message)

\* C4: after any single bit of the ciphertext or of the nonce of an envelope
\* is changed, decryptMessage with the correct key fails with the decryption
\* failure and returns no plaintext.
C4_TamperedEnvelopeFails ==
  (opened.kind = "message" /\ sealed.tampered /\ opened.with = scenario.key)
    => (~opened.result.ok /\ opened.result.err = DecryptionFailure)

C4_Witness ==
  /\ opened.kind = "message" /\ sealed.tampered /\ opened.with = scenario.key
  /\ ~opened.result.ok
  /\ Len(scenario.message) > 0

\* C5: an untampered envelope decrypted under another key fails with the
\* decryption failure: decryptMessage under a different symmetric key, a user
\* other than the receiver with their own identity private key, and a
\* non-member unwrapping a group key envelope.
C5_WrongKeyFails ==
  /\ (opened.kind = "message" /\ ~sealed.tampered /\ opened.with # scenario.key)
       => (~opened.result.ok /\ opened.result.err = DecryptionFailure)
  /\ (opened.kind = "direct" /\ opened.with # scenario.receiver)
       => (~opened.result.ok /\ opened.result.err = DecryptionFailure)
  /\ (opened.kind = "group" /\ opened.with # scenario.member)
       => (~opened.result.ok /\ opened.result.err = "OperationError")

C5_Witness ==
  /\ opened.kind = "direct"
  /\ opened.with \notin {scenario.receiver, scenario.sender}
  /\ ~opened.result.ok

\* C6: decryptPrivateKey applied with W to the record encryptPrivateKey(S, W)
\* returned gives a private key with the key material of S.
C6_PrivateKeyRoundTrip ==
  (opened.kind = "vault" /\ opened.with = scenario.password)
    => (opened.result.ok /\ opened.result.val = PrivateKeyOf(scenario.d))

C6_Witness ==
  opened.kind = "vault" /\ opened.with = scenario.password /\ opened.result.ok

C8_PersistedKeyIsEncrypted ==
  /\ localStorage.privateKeyJWK # None =>
       ~Bind(JsonParseJwk(localStorage.privateKeyJWK.text), ImportJwk).ok
  /\ \A u \in Users :
       directory[u] # None =>
         ~Bind(JsonParseJwk(directory[u].encryptedPrivateKey), ImportJwk).ok

\* C9: computeSharedSecret(A.private, B.public) equals
\* computeSharedSecret(B.private, A.public) for all key pairs A and B.
C9_SharedSecretCommutes ==
  opened.kind = "ecdh"
    => (opened.mine.ok /\ opened.theirs.ok /\ opened.mine.val = opened.theirs.val)

C9_Witness ==
  opened.kind = "ecdh" /\ scenario.a # scenario.b /\ opened.mine.ok

\* C10: decryptGroupKey applied with M.private to what
\* encryptGroupKeyForMember(G, M.public) returned gives the bytes of G.
C10_GroupKeyRoundTrip ==
  (opened.kind = "group" /\ opened.with = scenario.member)
    => (opened.result.ok /\ opened.result.val = scenario.groupKey)

C10_Witness ==
  opened.kind = "group" /\ opened.with = scenario.member /\ opened.result.ok

\* C12: the copy of a direct message encrypted for its sender
\* (senderEncryptedData, senderNonce, senderEphemPkForSelf) decrypts to
\* exactly the plaintext P when the sender loads the conversation, from the
\* sender's identity private key and the stored ephemeral public key alone.
C12_SenderReadsOwnCopy ==
  opened.kind = "self"
    => (opened.entry.decrypted /\ opened.entry.text = scenario.message)

\* the failures that report malformed input: the format check of
\* decryptGroupKey, the argument check of base64ToArrayBuffer, and atob
EncodingFailures == {InvalidFormat, "Base64 invalido", "InvalidCharacterError"}

\* C15: decryptGroupKey given a combined "ciphertext:nonce" string that has
\* no separator, an empty half or is otherwise malformed fails with an
\* encoding failure, whatever the ephemeral public key beside it: it does not
\* reach the key exchange and returns no key bytes.
C15_MalformedEnvelopeIsEncodingFailure ==
  opened.kind = "malformed"
    => (~opened.result.ok /\ opened.result.err \in EncodingFailures)

\* C16: when decryptMessage, decryptPrivateKey or decryptGroupKey is given
\* a field that is not base64, or is empty, the caller receives an encoding
\* failure, not a decryption failure and not a wrong-password failure.
C16_MalformedBase64IsEncodingFailure ==
  opened.kind = "badBase64" =>
    (~opened.result.ok /\ opened.result.err \in EncodingFailures)


\* C17: a CryptoService operation one of whose internal steps failed
\* hands its caller a failure and no value, and does not run the failed
\* step again: encryptGroupKeyForMember (with generateKeyPair inside it)
\* and decryptGroupKey return a value exactly when no step failed.
C17_FailuresSurface ==
  /\ sealed.kind = "faulty" => (sealed.result.ok <=> sealed.faults = {})
  /\ opened.kind = "faulty" => (opened.result.ok <=> opened.faults = {})

C17_Witness ==
  /\ sealed.kind = "faulty" /\ sealed.faults = {"generateKeyPair"}
  /\ ~sealed.result.ok /\ sealed.result.err = "OperationError"

C20_OneEntryPerMessageId ==
  opened.kind = "inbox" =>
    \A i, j \in 1..Len(opened.list) :
      opened.list[i].id = opened.list[j].id => i = j

\* C11: the key of a group is generated once, and every member, enveloped
\* at the creation or added later by handleAddMember, unwraps from the
\* envelope the server holds for them the bytes that were generated; so do
\* the copies kept in localStorage and as groupKey.
C11_OneGroupKeyForAllMembers ==
  /\ Len(groups) <= Len(generated)
  /\ \A id \in 1..Len(groups) :
       /\ \A i \in 1..Len(groups[id].members) :
            LET mine == groups[id].members[i]
                loaded == LoadedGroupKeys[EnvelopeOf(groups[id], mine.userId),
                                          mine.userId] IN
            loaded.ok /\ loaded.val.groupKeyRaw = generated[id]
       /\ \A u \in Members :
            /\ id \in DOMAIN storedGroupKeys[u] =>
                 base64ToArrayBuffer(storedGroupKeys[u][id]) = Ok(generated[id])
            /\ id \in DOMAIN chatGroupKey[u] =>
                 exportGroupKey(chatGroupKey[u][id]) = Ok(generated[id])

C11_Witness ==
  /\ Len(groups) = 1
  /\ \E i, j \in 1..Len(groups[1].members) :
       /\ groups[1].members[i].addedBy = None
       /\ groups[1].members[j].addedBy # None
       /\ 1 \in DOMAIN chatGroupKey[groups[1].members[i].userId]
       /\ 1 \in DOMAIN chatGroupKey[groups[1].members[j].userId]

C14_NoncesNeverReused ==
  \A made \in {Encryptions} :
    \A i, j \in 1..Len(made) : made[i] = made[j] => i = j

C14_Witness ==
  /\ Len(groupMessages) = 2
  /\ groupMessages[1].senderId # groupMessages[2].senderId
  /\ groupMessages[1].groupId = groupMessages[2].groupId
  /\ chatGroupKey[groupMessages[1].senderId][1]
       = chatGroupKey[groupMessages[2].senderId][1]

\* C18: every call of encryptGroupKeyForMember, in handleCreateGroup and
\* in handleAddMember, is handed a group key whose generation had completed
\* before the call.
C18_GroupKeyGeneratedBeforeWrapped ==
  \A i \in 1..Len(wrapCalls) :
    \E n \in 1..Len(generated) : generated[n] = wrapCalls[i]

C18_Witness ==
  /\ Len(wrapCalls) = 2 /\ Len(generated) = 1
  /\ Len(groups) = 1
  /\ \E j \in 1..Len(groups[1].members) : groups[1].members[j].addedBy # None

\* how often handler h is in the list calls
TimesCalled(calls, h) == Cardinality({i \in 1..Len(calls) : calls[i] = h})

C25_AtMostOneOpenSocket ==
  Cardinality(OpenSockets) <= 1

\* C22: whenever the socket is connected and a user is signed in, the user
\* id registered on the server for the socket is the id of that user
C22_SocketRegisteredToCurrentUser ==
  (socket # None /\ user # None) =>
    (socketUser # None /\ socketUser.id = user.id)

\* C26: a login that fails (the server rejects the credentials, the record
\* has no encrypted private key, or the private key is not decrypted with the
\* password) leaves user, privateKey, publicKey, publicKeyRaw and the stored
\* "user" and "privateKeyJWK" items as they were
C26_FailedLoginChangesNothing ==
  [][(loginCall' # loginCall /\ ~loginCall'.result.ok)
       => UNCHANGED <<authVars, localStorage>>]_vars

\* a login has failed on the password while a user was signed in
C26_Witness ==
  /\ loginCall # None /\ ~loginCall.result.ok
  /\ loginCall.result.err = WrongPassword
  /\ user # None /\ localStorage # EmptyStorage

\* the ids of the entries of a message list
ShownIds(list) == {list[k].id : k \in 1..Len(list)}

\* C23: in an open group whose key was unwrapped, every "message:receive"
\* event of the group that arrives afterwards is decrypted and appended to
\* the list of the group
C23_LateGroupMessagesShown ==
  groupChat # None =>
    \A i \in groupChat.late : ServerId(i) \in ShownIds(groupChat.messages)

\* C27: after logout the state holds no user and no key, and the storage of
\* the browser holds neither the private key nor a group key
C27_LogoutLeavesNoKeyMaterial ==
  user = None =>
    /\ privateKey = None /\ publicKey = None /\ publicKeyRaw = None
    /\ localStorage = EmptyStorage
    /\ storedGroupKeys[PageUser] = <<>>

\* C24: whenever no call of loadConversation waits for its response, every
\* entry of the list of direct messages was sent by the signed-in user or by
\* the user of the selected chat
C24_ListBelongsToSelectedChat ==
  (user # None /\ selectedChat # None /\ chatLoads.pending = <<>>) =>
    \A k \in 1..Len(messages) :
      messages[k].senderId \in {user.id, selectedChat.userId}


\* the user ids the envelopes of a request are for, the creator counted in
RequestMembers(request) ==
  {request.creatorId} \cup {request.members[i].userId : i \in 1..Len(request.members)}

\* the envelopes of a request that are for one user
EnvelopesFor(request, u) ==
  {i \in 1..Len(request.members) : request.members[i].userId = u}

\* C28: the creation of a group is all-or-nothing. A handleCreateGroup whose
\* member lookup or key wrapping failed sent no request and cached no key;
\* every request sent carries exactly one envelope per member, the creator
\* included; and a group key is cached only under the id of a group the server
\* accepted.
C28_CreationAllOrNothing ==
  /\ (lastCreate # None /\ lastCreate.result \in {"member not found", "wrapping failed"})
       => /\ posted = <<>>
          /\ \A u \in Members : storedGroupKeys[u] = <<>>
  /\ \A k \in 1..Len(posted) : \A u \in RequestMembers(posted[k]) :
       Cardinality(EnvelopesFor(posted[k], u)) = 1
  /\ \A u \in Members : \A id \in DOMAIN storedGroupKeys[u] : id \in 1..Len(groups)

====
